---------------------------- MODULE Spec2Model ----------------------------
(***************************************************************************)
(* A model of ULAC (universal atrial coordinates): the Artifact Store and  *)
(* the stages of ULACConstructor (construction.py) run over the default    *)
(* schema (configuration.py) and the default workflow (workflow.py), and   *)
(* the graph and path algorithms of construction_base.py.                  *)
(*                                                                         *)
(* Vertex positions are abstracted to integer edge lengths; floating-point *)
(* values are binary fractions rounded to Precision significant bits; in   *)
(* the Store model of the stages an artifact is its type together with the *)
(* number of the stage invocation that wrote it.                           *)
(*                                                                         *)
(* Specifications: Spec (the default run), SpecAnyOrder (stages invoked in *)
(* any order), SpecShortestPath, SpecParameterization and SpecUACPath (one *)
(* call of a path algorithm on every input within the bounds).             *)
(***************************************************************************)
EXTENDS Integers, Sequences, FiniteSets, TLC

Range(s) == {s[i] : i \in DOMAIN s}

(***************************************************************************)
(* The schema and the schedule                                             *)
(***************************************************************************)

\* configuration.path_configs: the raw paths, in dictionary order.  A BoundaryPathConfig is
\* extracted from a tag, a ConnectionPathConfig is a shortest path between two boundary sets.
\* inadmissible_contact = None is the empty sequence (construction.py:310-311 maps None to the
\* empty vertex set).
path_configs_keys ==
  << <<"LIPV", "inner">>,
     <<"LIPV", "outer">>,
     <<"LIPV", "anterior_posterior">>,
     <<"LIPV", "septal_lateral">>,
     <<"LIPV", "anchor">>,
     <<"LSPV", "inner">>,
     <<"LSPV", "outer">>,
     <<"LSPV", "anterior_posterior">>,
     <<"LSPV", "septal_lateral">>,
     <<"LSPV", "anchor">>,
     <<"RSPV", "inner">>,
     <<"RSPV", "outer">>,
     <<"RSPV", "anterior_posterior">>,
     <<"RSPV", "septal_lateral">>,
     <<"RSPV", "anchor">>,
     <<"RIPV", "inner">>,
     <<"RIPV", "outer">>,
     <<"RIPV", "anterior_posterior">>,
     <<"RIPV", "septal_lateral">>,
     <<"RIPV", "anchor">>,
     <<"LAA">>,
     <<"MV">>,
     <<"roof", "LIPV_LSPV">>,
     <<"roof", "LSPV_RSPV">>,
     <<"roof", "RSPV_RIPV">>,
     <<"roof", "RIPV_LIPV">>,
     <<"anchor", "LIPV_LAA">>,
     <<"anchor", "LAA_MV">>,
     <<"anchor", "LSPV_MV">>,
     <<"anchor", "RSPV_MV">>,
     <<"anchor", "RIPV_MV">>,
     <<"anchor", "LAA_lateral">>,
     <<"anchor", "LAA_posterior">> >>

path_configs(k) ==
  CASE k = <<"LIPV", "inner">> ->
       [class |-> "BoundaryPathConfig", feature_tag |-> "LIPV", coincides_with_mesh_boundary |-> FALSE]
    [] k = <<"LIPV", "outer">> ->
       [class |-> "BoundaryPathConfig", feature_tag |-> "LIPV", coincides_with_mesh_boundary |-> TRUE]
    [] k = <<"LIPV", "anterior_posterior">> ->
       [class |-> "ConnectionPathConfig", boundary_types |-> <<"marker", "path">>,
        start |-> <<"LIPV", "inner", "anterior_posterior">>, end |-> <<"LIPV", "outer">>,
        inadmissible_contact |-> <<>>,
        inadmissible_along |-> <<<<"LIPV", "inner">>, <<"LIPV", "outer">>>>]
    [] k = <<"LIPV", "septal_lateral">> ->
       [class |-> "ConnectionPathConfig", boundary_types |-> <<"marker", "path">>,
        start |-> <<"LIPV", "inner", "septal_lateral">>, end |-> <<"LIPV", "outer">>,
        inadmissible_contact |-> <<<<"LIPV", "anterior_posterior">>>>,
        inadmissible_along |-> <<<<"LIPV", "inner">>, <<"LIPV", "outer">>>>]
    [] k = <<"LIPV", "anchor">> ->
       [class |-> "ConnectionPathConfig", boundary_types |-> <<"marker", "path">>,
        start |-> <<"LIPV", "inner", "anchor">>, end |-> <<"LIPV", "outer">>,
        inadmissible_contact |-> <<<<"LIPV", "anterior_posterior">>, <<"LIPV", "septal_lateral">>>>,
        inadmissible_along |-> <<<<"LIPV", "inner">>, <<"LIPV", "outer">>>>]
    [] k = <<"LSPV", "inner">> ->
       [class |-> "BoundaryPathConfig", feature_tag |-> "LSPV", coincides_with_mesh_boundary |-> FALSE]
    [] k = <<"LSPV", "outer">> ->
       [class |-> "BoundaryPathConfig", feature_tag |-> "LSPV", coincides_with_mesh_boundary |-> TRUE]
    [] k = <<"LSPV", "anterior_posterior">> ->
       [class |-> "ConnectionPathConfig", boundary_types |-> <<"marker", "path">>,
        start |-> <<"LSPV", "inner", "anterior_posterior">>, end |-> <<"LSPV", "outer">>,
        inadmissible_contact |-> <<>>,
        inadmissible_along |-> <<<<"LSPV", "inner">>, <<"LSPV", "outer">>>>]
    [] k = <<"LSPV", "septal_lateral">> ->
       [class |-> "ConnectionPathConfig", boundary_types |-> <<"marker", "path">>,
        start |-> <<"LSPV", "inner", "septal_lateral">>, end |-> <<"LSPV", "outer">>,
        inadmissible_contact |-> <<<<"LSPV", "anterior_posterior">>>>,
        inadmissible_along |-> <<<<"LSPV", "inner">>, <<"LSPV", "outer">>>>]
    [] k = <<"LSPV", "anchor">> ->
       [class |-> "ConnectionPathConfig", boundary_types |-> <<"marker", "path">>,
        start |-> <<"LSPV", "inner", "anchor">>, end |-> <<"LSPV", "outer">>,
        inadmissible_contact |-> <<<<"LSPV", "anterior_posterior">>, <<"LSPV", "septal_lateral">>>>,
        inadmissible_along |-> <<<<"LSPV", "inner">>, <<"LSPV", "outer">>>>]
    [] k = <<"RSPV", "inner">> ->
       [class |-> "BoundaryPathConfig", feature_tag |-> "RSPV", coincides_with_mesh_boundary |-> FALSE]
    [] k = <<"RSPV", "outer">> ->
       [class |-> "BoundaryPathConfig", feature_tag |-> "RSPV", coincides_with_mesh_boundary |-> TRUE]
    [] k = <<"RSPV", "anterior_posterior">> ->
       [class |-> "ConnectionPathConfig", boundary_types |-> <<"marker", "path">>,
        start |-> <<"RSPV", "inner", "anterior_posterior">>, end |-> <<"RSPV", "outer">>,
        inadmissible_contact |-> <<>>,
        inadmissible_along |-> <<<<"RSPV", "inner">>, <<"RSPV", "outer">>>>]
    [] k = <<"RSPV", "septal_lateral">> ->
       [class |-> "ConnectionPathConfig", boundary_types |-> <<"marker", "path">>,
        start |-> <<"RSPV", "inner", "septal_lateral">>, end |-> <<"RSPV", "outer">>,
        inadmissible_contact |-> <<<<"RSPV", "anterior_posterior">>>>,
        inadmissible_along |-> <<<<"RSPV", "inner">>, <<"RSPV", "outer">>>>]
    [] k = <<"RSPV", "anchor">> ->
       [class |-> "ConnectionPathConfig", boundary_types |-> <<"marker", "path">>,
        start |-> <<"RSPV", "inner", "anchor">>, end |-> <<"RSPV", "outer">>,
        inadmissible_contact |-> <<<<"RSPV", "anterior_posterior">>, <<"RSPV", "septal_lateral">>>>,
        inadmissible_along |-> <<<<"RSPV", "inner">>, <<"RSPV", "outer">>>>]
    [] k = <<"RIPV", "inner">> ->
       [class |-> "BoundaryPathConfig", feature_tag |-> "RIPV", coincides_with_mesh_boundary |-> FALSE]
    [] k = <<"RIPV", "outer">> ->
       [class |-> "BoundaryPathConfig", feature_tag |-> "RIPV", coincides_with_mesh_boundary |-> TRUE]
    [] k = <<"RIPV", "anterior_posterior">> ->
       [class |-> "ConnectionPathConfig", boundary_types |-> <<"marker", "path">>,
        start |-> <<"RIPV", "inner", "anterior_posterior">>, end |-> <<"RIPV", "outer">>,
        inadmissible_contact |-> <<>>,
        inadmissible_along |-> <<<<"RIPV", "inner">>, <<"RIPV", "outer">>>>]
    [] k = <<"RIPV", "septal_lateral">> ->
       [class |-> "ConnectionPathConfig", boundary_types |-> <<"marker", "path">>,
        start |-> <<"RIPV", "inner", "septal_lateral">>, end |-> <<"RIPV", "outer">>,
        inadmissible_contact |-> <<<<"RIPV", "anterior_posterior">>>>,
        inadmissible_along |-> <<<<"RIPV", "inner">>, <<"RIPV", "outer">>>>]
    [] k = <<"RIPV", "anchor">> ->
       [class |-> "ConnectionPathConfig", boundary_types |-> <<"marker", "path">>,
        start |-> <<"RIPV", "inner", "anchor">>, end |-> <<"RIPV", "outer">>,
        inadmissible_contact |-> <<<<"RIPV", "anterior_posterior">>, <<"RIPV", "septal_lateral">>>>,
        inadmissible_along |-> <<<<"RIPV", "inner">>, <<"RIPV", "outer">>>>]
    [] k = <<"LAA">> ->
       [class |-> "BoundaryPathConfig", feature_tag |-> "LAA", coincides_with_mesh_boundary |-> FALSE]
    [] k = <<"MV">> ->
       [class |-> "BoundaryPathConfig", feature_tag |-> "MV", coincides_with_mesh_boundary |-> TRUE]
    [] k = <<"roof", "LIPV_LSPV">> ->
       [class |-> "ConnectionPathConfig", boundary_types |-> <<"path", "path">>,
        start |-> <<"LIPV", "inner">>, end |-> <<"LSPV", "inner">>,
        inadmissible_contact |-> <<>>,
        inadmissible_along |-> <<<<"LIPV", "inner">>, <<"LSPV", "inner">>>>]
    [] k = <<"roof", "LSPV_RSPV">> ->
       [class |-> "ConnectionPathConfig", boundary_types |-> <<"path", "path">>,
        start |-> <<"LSPV", "inner">>, end |-> <<"RSPV", "inner">>,
        inadmissible_contact |-> <<>>,
        inadmissible_along |-> <<<<"LSPV", "inner">>, <<"RSPV", "inner">>>>]
    [] k = <<"roof", "RSPV_RIPV">> ->
       [class |-> "ConnectionPathConfig", boundary_types |-> <<"path", "path">>,
        start |-> <<"RSPV", "inner">>, end |-> <<"RIPV", "inner">>,
        inadmissible_contact |-> <<>>,
        inadmissible_along |-> <<<<"RSPV", "inner">>, <<"RIPV", "inner">>>>]
    [] k = <<"roof", "RIPV_LIPV">> ->
       [class |-> "ConnectionPathConfig", boundary_types |-> <<"path", "path">>,
        start |-> <<"RIPV", "inner">>, end |-> <<"LIPV", "inner">>,
        inadmissible_contact |-> <<>>,
        inadmissible_along |-> <<<<"RIPV", "inner">>, <<"LIPV", "inner">>>>]
    [] k = <<"anchor", "LIPV_LAA">> ->
       [class |-> "ConnectionPathConfig", boundary_types |-> <<"path", "path">>,
        start |-> <<"LIPV", "inner">>, end |-> <<"LAA">>,
        inadmissible_contact |-> <<>>,
        inadmissible_along |-> <<<<"LIPV", "inner">>, <<"LAA">>>>]
    [] k = <<"anchor", "LAA_MV">> ->
       [class |-> "ConnectionPathConfig", boundary_types |-> <<"path", "path">>,
        start |-> <<"LAA">>, end |-> <<"MV">>,
        inadmissible_contact |-> <<>>,
        inadmissible_along |-> <<<<"LAA">>, <<"MV">>>>]
    [] k = <<"anchor", "LSPV_MV">> ->
       [class |-> "ConnectionPathConfig", boundary_types |-> <<"path", "path">>,
        start |-> <<"LSPV", "inner">>, end |-> <<"MV">>,
        inadmissible_contact |-> <<<<"LAA">>, <<"anchor", "LIPV_LAA">>, <<"anchor", "LAA_MV">>>>,
        inadmissible_along |-> <<<<"LSPV", "inner">>, <<"MV">>>>]
    [] k = <<"anchor", "RSPV_MV">> ->
       [class |-> "ConnectionPathConfig", boundary_types |-> <<"path", "path">>,
        start |-> <<"RSPV", "inner">>, end |-> <<"MV">>,
        inadmissible_contact |-> <<>>,
        inadmissible_along |-> <<<<"RSPV", "inner">>, <<"MV">>>>]
    [] k = <<"anchor", "RIPV_MV">> ->
       [class |-> "ConnectionPathConfig", boundary_types |-> <<"path", "path">>,
        start |-> <<"RIPV", "inner">>, end |-> <<"MV">>,
        inadmissible_contact |-> <<<<"anchor", "RSPV_MV">>>>,
        inadmissible_along |-> <<<<"RIPV", "inner">>, <<"MV">>>>]
    [] k = <<"anchor", "LAA_lateral">> ->
       [class |-> "ConnectionPathConfig", boundary_types |-> <<"path", "marker">>,
        start |-> <<"LAA">>, end |-> <<"anchor", "LSPV_MV">>,
        inadmissible_contact |-> <<<<"MV">>>>,
        inadmissible_along |-> <<<<"LAA">>, <<"anchor", "LSPV_MV">>>>]
    [] k = <<"anchor", "LAA_posterior">> ->
       [class |-> "ConnectionPathConfig", boundary_types |-> <<"path", "marker">>,
        start |-> <<"LAA">>, end |-> <<"anchor", "RIPV_MV">>,
        inadmissible_contact |-> <<<<"MV">>>>,
        inadmissible_along |-> <<<<"LAA">>, <<"anchor", "RIPV_MV">>>>]

\* configuration.marker_configs.  position is a path index for position_type "index" and a
\* relative length in eighths for position_type "relative".
marker_configs_keys ==
  << <<"LIPV", "inner", "anterior_posterior">>,
     <<"LIPV", "inner", "septal_lateral">>,
     <<"LIPV", "inner", "anchor">>,
     <<"LIPV", "outer", "anterior_posterior">>,
     <<"LIPV", "outer", "septal_lateral">>,
     <<"LIPV", "outer", "anchor">>,
     <<"LSPV", "inner", "anterior_posterior">>,
     <<"LSPV", "inner", "septal_lateral">>,
     <<"LSPV", "inner", "anchor">>,
     <<"LSPV", "outer", "anterior_posterior">>,
     <<"LSPV", "outer", "septal_lateral">>,
     <<"LSPV", "outer", "anchor">>,
     <<"RSPV", "inner", "anterior_posterior">>,
     <<"RSPV", "inner", "septal_lateral">>,
     <<"RSPV", "inner", "anchor">>,
     <<"RSPV", "outer", "anterior_posterior">>,
     <<"RSPV", "outer", "septal_lateral">>,
     <<"RSPV", "outer", "anchor">>,
     <<"RIPV", "inner", "anterior_posterior">>,
     <<"RIPV", "inner", "septal_lateral">>,
     <<"RIPV", "inner", "anchor">>,
     <<"RIPV", "outer", "anterior_posterior">>,
     <<"RIPV", "outer", "septal_lateral">>,
     <<"RIPV", "outer", "anchor">>,
     <<"LAA", "LIPV">>,
     <<"LAA", "MV">>,
     <<"LAA", "lateral">>,
     <<"LAA", "posterior">>,
     <<"MV", "RSPV">>,
     <<"MV", "LSPV">>,
     <<"MV", "LAA">>,
     <<"MV", "RIPV">>,
     <<"anchor", "LSPV_MV">>,
     <<"anchor", "RIPV_MV">> >>

marker_configs(k) ==
  CASE k = <<"LIPV", "inner", "anterior_posterior">> ->
       [path |-> <<"roof", "LIPV_LSPV">>, position_type |-> "index", position |-> 0]
    [] k = <<"LIPV", "inner", "septal_lateral">> ->
       [path |-> <<"roof", "RIPV_LIPV">>, position_type |-> "index", position |-> -1]
    [] k = <<"LIPV", "inner", "anchor">> ->
       [path |-> <<"anchor", "LIPV_LAA">>, position_type |-> "index", position |-> 0]
    [] k = <<"LIPV", "outer", "anterior_posterior">> ->
       [path |-> <<"LIPV", "anterior_posterior">>, position_type |-> "index", position |-> -1]
    [] k = <<"LIPV", "outer", "septal_lateral">> ->
       [path |-> <<"LIPV", "septal_lateral">>, position_type |-> "index", position |-> -1]
    [] k = <<"LIPV", "outer", "anchor">> ->
       [path |-> <<"LIPV", "anchor">>, position_type |-> "index", position |-> -1]
    [] k = <<"LSPV", "inner", "anterior_posterior">> ->
       [path |-> <<"roof", "LIPV_LSPV">>, position_type |-> "index", position |-> -1]
    [] k = <<"LSPV", "inner", "septal_lateral">> ->
       [path |-> <<"roof", "LSPV_RSPV">>, position_type |-> "index", position |-> 0]
    [] k = <<"LSPV", "inner", "anchor">> ->
       [path |-> <<"anchor", "LSPV_MV">>, position_type |-> "index", position |-> 0]
    [] k = <<"LSPV", "outer", "anterior_posterior">> ->
       [path |-> <<"LSPV", "anterior_posterior">>, position_type |-> "index", position |-> -1]
    [] k = <<"LSPV", "outer", "septal_lateral">> ->
       [path |-> <<"LSPV", "septal_lateral">>, position_type |-> "index", position |-> -1]
    [] k = <<"LSPV", "outer", "anchor">> ->
       [path |-> <<"LSPV", "anchor">>, position_type |-> "index", position |-> -1]
    [] k = <<"RSPV", "inner", "anterior_posterior">> ->
       [path |-> <<"roof", "RSPV_RIPV">>, position_type |-> "index", position |-> 0]
    [] k = <<"RSPV", "inner", "septal_lateral">> ->
       [path |-> <<"roof", "LSPV_RSPV">>, position_type |-> "index", position |-> -1]
    [] k = <<"RSPV", "inner", "anchor">> ->
       [path |-> <<"anchor", "RSPV_MV">>, position_type |-> "index", position |-> 0]
    [] k = <<"RSPV", "outer", "anterior_posterior">> ->
       [path |-> <<"RSPV", "anterior_posterior">>, position_type |-> "index", position |-> -1]
    [] k = <<"RSPV", "outer", "septal_lateral">> ->
       [path |-> <<"RSPV", "septal_lateral">>, position_type |-> "index", position |-> -1]
    [] k = <<"RSPV", "outer", "anchor">> ->
       [path |-> <<"RSPV", "anchor">>, position_type |-> "index", position |-> -1]
    [] k = <<"RIPV", "inner", "anterior_posterior">> ->
       [path |-> <<"roof", "RSPV_RIPV">>, position_type |-> "index", position |-> -1]
    [] k = <<"RIPV", "inner", "septal_lateral">> ->
       [path |-> <<"roof", "RIPV_LIPV">>, position_type |-> "index", position |-> 0]
    [] k = <<"RIPV", "inner", "anchor">> ->
       [path |-> <<"anchor", "RIPV_MV">>, position_type |-> "index", position |-> 0]
    [] k = <<"RIPV", "outer", "anterior_posterior">> ->
       [path |-> <<"RIPV", "anterior_posterior">>, position_type |-> "index", position |-> -1]
    [] k = <<"RIPV", "outer", "septal_lateral">> ->
       [path |-> <<"RIPV", "septal_lateral">>, position_type |-> "index", position |-> -1]
    [] k = <<"RIPV", "outer", "anchor">> ->
       [path |-> <<"RIPV", "anchor">>, position_type |-> "index", position |-> -1]
    [] k = <<"LAA", "LIPV">> ->
       [path |-> <<"anchor", "LIPV_LAA">>, position_type |-> "index", position |-> -1]
    [] k = <<"LAA", "MV">> ->
       [path |-> <<"anchor", "LAA_MV">>, position_type |-> "index", position |-> 0]
    [] k = <<"LAA", "lateral">> ->
       [path |-> <<"anchor", "LAA_lateral">>, position_type |-> "index", position |-> 0]
    [] k = <<"LAA", "posterior">> ->
       [path |-> <<"anchor", "LAA_posterior">>, position_type |-> "index", position |-> 0]
    [] k = <<"MV", "RSPV">> ->
       [path |-> <<"anchor", "RSPV_MV">>, position_type |-> "index", position |-> -1]
    [] k = <<"MV", "LSPV">> ->
       [path |-> <<"anchor", "LSPV_MV">>, position_type |-> "index", position |-> -1]
    [] k = <<"MV", "LAA">> ->
       [path |-> <<"anchor", "LAA_MV">>, position_type |-> "index", position |-> -1]
    [] k = <<"MV", "RIPV">> ->
       [path |-> <<"anchor", "RIPV_MV">>, position_type |-> "index", position |-> -1]
    [] k = <<"anchor", "LSPV_MV">> ->
       [path |-> <<"anchor", "LSPV_MV_anterior">>, position_type |-> "relative", position |-> 4]
    [] k = <<"anchor", "RIPV_MV">> ->
       [path |-> <<"anchor", "RIPV_MV_septal">>, position_type |-> "relative", position |-> 4]

\* configuration.parameterization_configs.  marker_relative_positions are in eighths
\* (PV_SEPTAL_LATERAL = 1/4 is 2, PV_ANCHOR = 5/8 is 5).
parameterization_configs_keys ==
  << <<"LIPV", "inner">>,
     <<"LIPV", "outer">>,
     <<"LIPV", "anterior_posterior">>,
     <<"LIPV", "septal_lateral">>,
     <<"LIPV", "anchor">>,
     <<"LSPV", "inner">>,
     <<"LSPV", "outer">>,
     <<"LSPV", "anterior_posterior">>,
     <<"LSPV", "septal_lateral">>,
     <<"LSPV", "anchor">>,
     <<"RSPV", "inner">>,
     <<"RSPV", "outer">>,
     <<"RSPV", "anterior_posterior">>,
     <<"RSPV", "septal_lateral">>,
     <<"RSPV", "anchor">>,
     <<"RIPV", "inner">>,
     <<"RIPV", "outer">>,
     <<"RIPV", "anterior_posterior">>,
     <<"RIPV", "septal_lateral">>,
     <<"RIPV", "anchor">>,
     <<"LAA">>,
     <<"MV">>,
     <<"roof", "LIPV_LSPV">>,
     <<"roof", "LSPV_RSPV">>,
     <<"roof", "RSPV_RIPV">>,
     <<"roof", "RIPV_LIPV">>,
     <<"anchor", "LIPV_LAA">>,
     <<"anchor", "LAA_MV">>,
     <<"anchor", "LSPV_MV_anterior">>,
     <<"anchor", "LSPV_MV_lateral">>,
     <<"anchor", "RSPV_MV">>,
     <<"anchor", "RIPV_MV_septal">>,
     <<"anchor", "RIPV_MV_posterior">>,
     <<"anchor", "LAA_lateral">>,
     <<"anchor", "LAA_posterior">> >>

parameterization_configs(k) ==
  CASE k = <<"LIPV", "inner">> ->
       [path |-> <<"LIPV", "inner">>,
        markers |-> <<<<"LIPV", "inner", "anterior_posterior">>, <<"LIPV", "inner", "septal_lateral">>, <<"LIPV", "inner", "anchor">>>>,
        marker_relative_positions |-> <<0, 2, 5>>]
    [] k = <<"LIPV", "outer">> ->
       [path |-> <<"LIPV", "outer">>,
        markers |-> <<<<"LIPV", "outer", "anterior_posterior">>, <<"LIPV", "outer", "septal_lateral">>, <<"LIPV", "outer", "anchor">>>>,
        marker_relative_positions |-> <<0, 2, 5>>]
    [] k = <<"LIPV", "anterior_posterior">> ->
       [path |-> <<"LIPV", "anterior_posterior">>,
        markers |-> <<<<"LIPV", "inner", "anterior_posterior">>, <<"LIPV", "outer", "anterior_posterior">>>>,
        marker_relative_positions |-> <<0, 8>>]
    [] k = <<"LIPV", "septal_lateral">> ->
       [path |-> <<"LIPV", "septal_lateral">>,
        markers |-> <<<<"LIPV", "inner", "septal_lateral">>, <<"LIPV", "outer", "septal_lateral">>>>,
        marker_relative_positions |-> <<0, 8>>]
    [] k = <<"LIPV", "anchor">> ->
       [path |-> <<"LIPV", "anchor">>,
        markers |-> <<<<"LIPV", "inner", "anchor">>, <<"LIPV", "outer", "anchor">>>>,
        marker_relative_positions |-> <<0, 8>>]
    [] k = <<"LSPV", "inner">> ->
       [path |-> <<"LSPV", "inner">>,
        markers |-> <<<<"LSPV", "inner", "anterior_posterior">>, <<"LSPV", "inner", "septal_lateral">>, <<"LSPV", "inner", "anchor">>>>,
        marker_relative_positions |-> <<0, 2, 5>>]
    [] k = <<"LSPV", "outer">> ->
       [path |-> <<"LSPV", "outer">>,
        markers |-> <<<<"LSPV", "outer", "anterior_posterior">>, <<"LSPV", "outer", "septal_lateral">>, <<"LSPV", "outer", "anchor">>>>,
        marker_relative_positions |-> <<0, 2, 5>>]
    [] k = <<"LSPV", "anterior_posterior">> ->
       [path |-> <<"LSPV", "anterior_posterior">>,
        markers |-> <<<<"LSPV", "inner", "anterior_posterior">>, <<"LSPV", "outer", "anterior_posterior">>>>,
        marker_relative_positions |-> <<0, 8>>]
    [] k = <<"LSPV", "septal_lateral">> ->
       [path |-> <<"LSPV", "septal_lateral">>,
        markers |-> <<<<"LSPV", "inner", "septal_lateral">>, <<"LSPV", "outer", "septal_lateral">>>>,
        marker_relative_positions |-> <<0, 8>>]
    [] k = <<"LSPV", "anchor">> ->
       [path |-> <<"LSPV", "anchor">>,
        markers |-> <<<<"LSPV", "inner", "anchor">>, <<"LSPV", "outer", "anchor">>>>,
        marker_relative_positions |-> <<0, 8>>]
    [] k = <<"RSPV", "inner">> ->
       [path |-> <<"RSPV", "inner">>,
        markers |-> <<<<"RSPV", "inner", "anterior_posterior">>, <<"RSPV", "inner", "septal_lateral">>, <<"RSPV", "inner", "anchor">>>>,
        marker_relative_positions |-> <<0, 2, 5>>]
    [] k = <<"RSPV", "outer">> ->
       [path |-> <<"RSPV", "outer">>,
        markers |-> <<<<"RSPV", "outer", "anterior_posterior">>, <<"RSPV", "outer", "septal_lateral">>, <<"RSPV", "outer", "anchor">>>>,
        marker_relative_positions |-> <<0, 2, 5>>]
    [] k = <<"RSPV", "anterior_posterior">> ->
       [path |-> <<"RSPV", "anterior_posterior">>,
        markers |-> <<<<"RSPV", "inner", "anterior_posterior">>, <<"RSPV", "outer", "anterior_posterior">>>>,
        marker_relative_positions |-> <<0, 8>>]
    [] k = <<"RSPV", "septal_lateral">> ->
       [path |-> <<"RSPV", "septal_lateral">>,
        markers |-> <<<<"RSPV", "inner", "septal_lateral">>, <<"RSPV", "outer", "septal_lateral">>>>,
        marker_relative_positions |-> <<0, 8>>]
    [] k = <<"RSPV", "anchor">> ->
       [path |-> <<"RSPV", "anchor">>,
        markers |-> <<<<"RSPV", "inner", "anchor">>, <<"RSPV", "outer", "anchor">>>>,
        marker_relative_positions |-> <<0, 8>>]
    [] k = <<"RIPV", "inner">> ->
       [path |-> <<"RIPV", "inner">>,
        markers |-> <<<<"RIPV", "inner", "anterior_posterior">>, <<"RIPV", "inner", "septal_lateral">>, <<"RIPV", "inner", "anchor">>>>,
        marker_relative_positions |-> <<0, 2, 5>>]
    [] k = <<"RIPV", "outer">> ->
       [path |-> <<"RIPV", "outer">>,
        markers |-> <<<<"RIPV", "outer", "anterior_posterior">>, <<"RIPV", "outer", "septal_lateral">>, <<"RIPV", "outer", "anchor">>>>,
        marker_relative_positions |-> <<0, 2, 5>>]
    [] k = <<"RIPV", "anterior_posterior">> ->
       [path |-> <<"RIPV", "anterior_posterior">>,
        markers |-> <<<<"RIPV", "inner", "anterior_posterior">>, <<"RIPV", "outer", "anterior_posterior">>>>,
        marker_relative_positions |-> <<0, 8>>]
    [] k = <<"RIPV", "septal_lateral">> ->
       [path |-> <<"RIPV", "septal_lateral">>,
        markers |-> <<<<"RIPV", "inner", "septal_lateral">>, <<"RIPV", "outer", "septal_lateral">>>>,
        marker_relative_positions |-> <<0, 8>>]
    [] k = <<"RIPV", "anchor">> ->
       [path |-> <<"RIPV", "anchor">>,
        markers |-> <<<<"RIPV", "inner", "anchor">>, <<"RIPV", "outer", "anchor">>>>,
        marker_relative_positions |-> <<0, 8>>]
    [] k = <<"LAA">> ->
       [path |-> <<"LAA">>,
        markers |-> <<<<"LAA", "LIPV">>, <<"LAA", "lateral">>, <<"LAA", "MV">>, <<"LAA", "posterior">>>>,
        marker_relative_positions |-> <<0, 2, 4, 6>>]
    [] k = <<"MV">> ->
       [path |-> <<"MV">>,
        markers |-> <<<<"MV", "RSPV">>, <<"MV", "LSPV">>, <<"MV", "LAA">>, <<"MV", "RIPV">>>>,
        marker_relative_positions |-> <<0, 2, 4, 6>>]
    [] k = <<"roof", "LIPV_LSPV">> ->
       [path |-> <<"roof", "LIPV_LSPV">>,
        markers |-> <<<<"LIPV", "inner", "anterior_posterior">>, <<"LSPV", "inner", "anterior_posterior">>>>,
        marker_relative_positions |-> <<0, 8>>]
    [] k = <<"roof", "LSPV_RSPV">> ->
       [path |-> <<"roof", "LSPV_RSPV">>,
        markers |-> <<<<"LSPV", "inner", "septal_lateral">>, <<"RSPV", "inner", "septal_lateral">>>>,
        marker_relative_positions |-> <<0, 8>>]
    [] k = <<"roof", "RSPV_RIPV">> ->
       [path |-> <<"roof", "RSPV_RIPV">>,
        markers |-> <<<<"RSPV", "inner", "anterior_posterior">>, <<"RIPV", "inner", "anterior_posterior">>>>,
        marker_relative_positions |-> <<0, 8>>]
    [] k = <<"roof", "RIPV_LIPV">> ->
       [path |-> <<"roof", "RIPV_LIPV">>,
        markers |-> <<<<"RIPV", "inner", "septal_lateral">>, <<"LIPV", "inner", "septal_lateral">>>>,
        marker_relative_positions |-> <<0, 8>>]
    [] k = <<"anchor", "LIPV_LAA">> ->
       [path |-> <<"anchor", "LIPV_LAA">>,
        markers |-> <<<<"LIPV", "inner", "anchor">>, <<"LAA", "LIPV">>>>,
        marker_relative_positions |-> <<0, 8>>]
    [] k = <<"anchor", "LAA_MV">> ->
       [path |-> <<"anchor", "LAA_MV">>,
        markers |-> <<<<"LAA", "MV">>, <<"MV", "LAA">>>>,
        marker_relative_positions |-> <<0, 8>>]
    [] k = <<"anchor", "LSPV_MV_anterior">> ->
       [path |-> <<"anchor", "LSPV_MV">>,
        markers |-> <<<<"LSPV", "inner", "anchor">>, <<"MV", "LSPV">>>>,
        marker_relative_positions |-> <<0, 8>>]
    [] k = <<"anchor", "LSPV_MV_lateral">> ->
       [path |-> <<"anchor", "LSPV_MV">>,
        markers |-> <<<<"LSPV", "inner", "anchor">>, <<"anchor", "LSPV_MV">>, <<"MV", "LSPV">>>>,
        marker_relative_positions |-> <<0, 4, 8>>]
    [] k = <<"anchor", "RSPV_MV">> ->
       [path |-> <<"anchor", "RSPV_MV">>,
        markers |-> <<<<"RSPV", "inner", "anchor">>, <<"MV", "RSPV">>>>,
        marker_relative_positions |-> <<0, 8>>]
    [] k = <<"anchor", "RIPV_MV_septal">> ->
       [path |-> <<"anchor", "RIPV_MV">>,
        markers |-> <<<<"RIPV", "inner", "anchor">>, <<"MV", "RIPV">>>>,
        marker_relative_positions |-> <<0, 8>>]
    [] k = <<"anchor", "RIPV_MV_posterior">> ->
       [path |-> <<"anchor", "RIPV_MV">>,
        markers |-> <<<<"RIPV", "inner", "anchor">>, <<"anchor", "RIPV_MV">>, <<"MV", "RIPV">>>>,
        marker_relative_positions |-> <<0, 4, 8>>]
    [] k = <<"anchor", "LAA_lateral">> ->
       [path |-> <<"anchor", "LAA_lateral">>,
        markers |-> <<<<"LAA", "lateral">>, <<"anchor", "LSPV_MV">>>>,
        marker_relative_positions |-> <<0, 8>>]
    [] k = <<"anchor", "LAA_posterior">> ->
       [path |-> <<"anchor", "LAA_posterior">>,
        markers |-> <<<<"LAA", "posterior">>, <<"anchor", "RIPV_MV">>>>,
        marker_relative_positions |-> <<0, 8>>]

\* configuration.uac_configs: the parameterized path each UAC path is built from and the
\* anchors' relative positions in eighths (the anchors' coordinates are not part of the
\* dependency structure).
uac_configs_keys ==
  << <<"LIPV", "inner">>,
     <<"LIPV", "outer">>,
     <<"LIPV", "anterior_posterior">>,
     <<"LIPV", "septal_lateral">>,
     <<"LIPV", "anchor">>,
     <<"LSPV", "inner">>,
     <<"LSPV", "outer">>,
     <<"LSPV", "anterior_posterior">>,
     <<"LSPV", "septal_lateral">>,
     <<"LSPV", "anchor">>,
     <<"RSPV", "inner">>,
     <<"RSPV", "outer">>,
     <<"RSPV", "anterior_posterior">>,
     <<"RSPV", "septal_lateral">>,
     <<"RSPV", "anchor">>,
     <<"RIPV", "inner">>,
     <<"RIPV", "outer">>,
     <<"RIPV", "anterior_posterior">>,
     <<"RIPV", "septal_lateral">>,
     <<"RIPV", "anchor">>,
     <<"LAA", "LAA">>,
     <<"LAA", "lateral">>,
     <<"LAA", "posterior">>,
     <<"MV", "anterior">>,
     <<"MV", "lateral">>,
     <<"MV", "posterior">>,
     <<"MV", "septal">>,
     <<"roof", "LIPV_LSPV">>,
     <<"roof", "LSPV_RSPV">>,
     <<"roof", "RSPV_RIPV">>,
     <<"roof", "RIPV_LIPV">>,
     <<"anchor", "LIPV_LAA", "lateral">>,
     <<"anchor", "LIPV_LAA", "posterior">>,
     <<"anchor", "LAA_MV", "lateral">>,
     <<"anchor", "LAA_MV", "posterior">>,
     <<"anchor", "LSPV_MV", "anterior">>,
     <<"anchor", "LSPV_MV", "lateral">>,
     <<"anchor", "RSPV_MV", "anterior">>,
     <<"anchor", "RSPV_MV", "septal">>,
     <<"anchor", "RIPV_MV", "septal">>,
     <<"anchor", "RIPV_MV", "posterior">>,
     <<"anchor", "LAA_lateral">>,
     <<"anchor", "LAA_posterior">> >>

uac_configs(k) ==
  CASE k = <<"LIPV", "inner">> ->
       [path |-> <<"LIPV", "inner">>, relative_positions |-> <<0, 2, 5, 8>>]
    [] k = <<"LIPV", "outer">> ->
       [path |-> <<"LIPV", "outer">>, relative_positions |-> <<0, 2, 5, 8>>]
    [] k = <<"LIPV", "anterior_posterior">> ->
       [path |-> <<"LIPV", "anterior_posterior">>, relative_positions |-> <<0, 8>>]
    [] k = <<"LIPV", "septal_lateral">> ->
       [path |-> <<"LIPV", "septal_lateral">>, relative_positions |-> <<0, 8>>]
    [] k = <<"LIPV", "anchor">> ->
       [path |-> <<"LIPV", "anchor">>, relative_positions |-> <<0, 8>>]
    [] k = <<"LSPV", "inner">> ->
       [path |-> <<"LSPV", "inner">>, relative_positions |-> <<0, 2, 5, 8>>]
    [] k = <<"LSPV", "outer">> ->
       [path |-> <<"LSPV", "outer">>, relative_positions |-> <<0, 2, 5, 8>>]
    [] k = <<"LSPV", "anterior_posterior">> ->
       [path |-> <<"LSPV", "anterior_posterior">>, relative_positions |-> <<0, 8>>]
    [] k = <<"LSPV", "septal_lateral">> ->
       [path |-> <<"LSPV", "septal_lateral">>, relative_positions |-> <<0, 8>>]
    [] k = <<"LSPV", "anchor">> ->
       [path |-> <<"LSPV", "anchor">>, relative_positions |-> <<0, 8>>]
    [] k = <<"RSPV", "inner">> ->
       [path |-> <<"RSPV", "inner">>, relative_positions |-> <<0, 2, 5, 8>>]
    [] k = <<"RSPV", "outer">> ->
       [path |-> <<"RSPV", "outer">>, relative_positions |-> <<0, 2, 5, 8>>]
    [] k = <<"RSPV", "anterior_posterior">> ->
       [path |-> <<"RSPV", "anterior_posterior">>, relative_positions |-> <<0, 8>>]
    [] k = <<"RSPV", "septal_lateral">> ->
       [path |-> <<"RSPV", "septal_lateral">>, relative_positions |-> <<0, 8>>]
    [] k = <<"RSPV", "anchor">> ->
       [path |-> <<"RSPV", "anchor">>, relative_positions |-> <<0, 8>>]
    [] k = <<"RIPV", "inner">> ->
       [path |-> <<"RIPV", "inner">>, relative_positions |-> <<0, 2, 5, 8>>]
    [] k = <<"RIPV", "outer">> ->
       [path |-> <<"RIPV", "outer">>, relative_positions |-> <<0, 2, 5, 8>>]
    [] k = <<"RIPV", "anterior_posterior">> ->
       [path |-> <<"RIPV", "anterior_posterior">>, relative_positions |-> <<0, 8>>]
    [] k = <<"RIPV", "septal_lateral">> ->
       [path |-> <<"RIPV", "septal_lateral">>, relative_positions |-> <<0, 8>>]
    [] k = <<"RIPV", "anchor">> ->
       [path |-> <<"RIPV", "anchor">>, relative_positions |-> <<0, 8>>]
    [] k = <<"LAA", "LAA">> ->
       [path |-> <<"LAA">>, relative_positions |-> <<0, 2, 4, 6, 8>>]
    [] k = <<"LAA", "lateral">> ->
       [path |-> <<"LAA">>, relative_positions |-> <<0, 2, 4>>]
    [] k = <<"LAA", "posterior">> ->
       [path |-> <<"LAA">>, relative_positions |-> <<4, 6, 8>>]
    [] k = <<"MV", "anterior">> ->
       [path |-> <<"MV">>, relative_positions |-> <<0, 2>>]
    [] k = <<"MV", "lateral">> ->
       [path |-> <<"MV">>, relative_positions |-> <<2, 4>>]
    [] k = <<"MV", "posterior">> ->
       [path |-> <<"MV">>, relative_positions |-> <<4, 6>>]
    [] k = <<"MV", "septal">> ->
       [path |-> <<"MV">>, relative_positions |-> <<6, 8>>]
    [] k = <<"roof", "LIPV_LSPV">> ->
       [path |-> <<"roof", "LIPV_LSPV">>, relative_positions |-> <<0, 8>>]
    [] k = <<"roof", "LSPV_RSPV">> ->
       [path |-> <<"roof", "LSPV_RSPV">>, relative_positions |-> <<0, 8>>]
    [] k = <<"roof", "RSPV_RIPV">> ->
       [path |-> <<"roof", "RSPV_RIPV">>, relative_positions |-> <<0, 8>>]
    [] k = <<"roof", "RIPV_LIPV">> ->
       [path |-> <<"roof", "RIPV_LIPV">>, relative_positions |-> <<0, 8>>]
    [] k = <<"anchor", "LIPV_LAA", "lateral">> ->
       [path |-> <<"anchor", "LIPV_LAA">>, relative_positions |-> <<0, 8>>]
    [] k = <<"anchor", "LIPV_LAA", "posterior">> ->
       [path |-> <<"anchor", "LIPV_LAA">>, relative_positions |-> <<0, 8>>]
    [] k = <<"anchor", "LAA_MV", "lateral">> ->
       [path |-> <<"anchor", "LAA_MV">>, relative_positions |-> <<0, 8>>]
    [] k = <<"anchor", "LAA_MV", "posterior">> ->
       [path |-> <<"anchor", "LAA_MV">>, relative_positions |-> <<0, 8>>]
    [] k = <<"anchor", "LSPV_MV", "anterior">> ->
       [path |-> <<"anchor", "LSPV_MV_anterior">>, relative_positions |-> <<0, 8>>]
    [] k = <<"anchor", "LSPV_MV", "lateral">> ->
       [path |-> <<"anchor", "LSPV_MV_lateral">>, relative_positions |-> <<0, 4, 8>>]
    [] k = <<"anchor", "RSPV_MV", "anterior">> ->
       [path |-> <<"anchor", "RSPV_MV">>, relative_positions |-> <<0, 8>>]
    [] k = <<"anchor", "RSPV_MV", "septal">> ->
       [path |-> <<"anchor", "RSPV_MV">>, relative_positions |-> <<0, 8>>]
    [] k = <<"anchor", "RIPV_MV", "septal">> ->
       [path |-> <<"anchor", "RIPV_MV_septal">>, relative_positions |-> <<0, 8>>]
    [] k = <<"anchor", "RIPV_MV", "posterior">> ->
       [path |-> <<"anchor", "RIPV_MV_posterior">>, relative_positions |-> <<0, 4, 8>>]
    [] k = <<"anchor", "LAA_lateral">> ->
       [path |-> <<"anchor", "LAA_lateral">>, relative_positions |-> <<0, 8>>]
    [] k = <<"anchor", "LAA_posterior">> ->
       [path |-> <<"anchor", "LAA_posterior">>, relative_positions |-> <<0, 8>>]

\* configuration.submesh_configs.  portions are in eighths.
submesh_configs_keys ==
  << <<"roof">>,
     <<"anterior">>,
     <<"septal">>,
     <<"posterior_roof">>,
     <<"posterior_mv">>,
     <<"lateral_roof">>,
     <<"lateral_mv">>,
     <<"laa">>,
     <<"LIPV", "segment_1">>,
     <<"LIPV", "segment_2">>,
     <<"LIPV", "segment_3">>,
     <<"LSPV", "segment_1">>,
     <<"LSPV", "segment_2">>,
     <<"LSPV", "segment_3">>,
     <<"RSPV", "segment_1">>,
     <<"RSPV", "segment_2">>,
     <<"RSPV", "segment_3">>,
     <<"RIPV", "segment_1">>,
     <<"RIPV", "segment_2">>,
     <<"RIPV", "segment_3">> >>

submesh_configs(k) ==
  CASE k = <<"roof">> ->
       [boundary_paths |-> <<<<"LIPV", "inner">>, <<"LSPV", "inner">>, <<"RSPV", "inner">>, <<"RIPV", "inner">>, <<"roof", "LIPV_LSPV">>, <<"roof", "LSPV_RSPV">>, <<"roof", "RSPV_RIPV">>, <<"roof", "RIPV_LIPV">>>>,
        portions |-> <<<<0, 2>>, <<0, 2>>, <<0, 2>>, <<0, 2>>, <<0, 8>>, <<0, 8>>, <<0, 8>>, <<0, 8>>>>,
        outside_path |-> <<"MV">>]
    [] k = <<"anterior">> ->
       [boundary_paths |-> <<<<"LSPV", "inner">>, <<"RSPV", "inner">>, <<"roof", "LSPV_RSPV">>, <<"anchor", "LSPV_MV", "anterior">>, <<"anchor", "RSPV_MV", "anterior">>, <<"MV", "anterior">>>>,
        portions |-> <<<<2, 5>>, <<2, 5>>, <<0, 8>>, <<0, 8>>, <<0, 8>>, <<0, 8>>>>,
        outside_path |-> <<"LIPV", "inner">>]
    [] k = <<"septal">> ->
       [boundary_paths |-> <<<<"RIPV", "inner">>, <<"RSPV", "inner">>, <<"roof", "RSPV_RIPV">>, <<"anchor", "RIPV_MV", "septal">>, <<"anchor", "RSPV_MV", "septal">>, <<"MV", "septal">>>>,
        portions |-> <<<<5, 8>>, <<5, 8>>, <<0, 8>>, <<0, 8>>, <<0, 8>>, <<0, 8>>>>,
        outside_path |-> <<"LIPV", "inner">>]
    [] k = <<"posterior_roof">> ->
       [boundary_paths |-> <<<<"RIPV", "inner">>, <<"LIPV", "inner">>, <<"roof", "RIPV_LIPV">>, <<"anchor", "RIPV_MV", "posterior">>, <<"anchor", "LIPV_LAA", "posterior">>, <<"anchor", "LAA_posterior">>, <<"LAA", "posterior">>>>,
        portions |-> <<<<2, 5>>, <<2, 5>>, <<0, 8>>, <<0, 4>>, <<0, 8>>, <<0, 8>>, <<6, 8>>>>,
        outside_path |-> <<"LSPV", "inner">>]
    [] k = <<"posterior_mv">> ->
       [boundary_paths |-> <<<<"anchor", "RIPV_MV", "posterior">>, <<"anchor", "LAA_MV", "posterior">>, <<"anchor", "LAA_posterior">>, <<"LAA", "posterior">>, <<"MV", "posterior">>>>,
        portions |-> <<<<4, 8>>, <<0, 8>>, <<0, 8>>, <<4, 6>>, <<0, 8>>>>,
        outside_path |-> <<"LSPV", "inner">>]
    [] k = <<"lateral_roof">> ->
       [boundary_paths |-> <<<<"LIPV", "inner">>, <<"LSPV", "inner">>, <<"roof", "LIPV_LSPV">>, <<"anchor", "LIPV_LAA", "lateral">>, <<"anchor", "LSPV_MV", "lateral">>, <<"anchor", "LAA_lateral">>, <<"LAA", "lateral">>>>,
        portions |-> <<<<5, 8>>, <<5, 8>>, <<0, 8>>, <<0, 8>>, <<0, 4>>, <<0, 8>>, <<0, 2>>>>,
        outside_path |-> <<"RIPV", "inner">>]
    [] k = <<"lateral_mv">> ->
       [boundary_paths |-> <<<<"anchor", "LAA_MV", "lateral">>, <<"anchor", "LSPV_MV", "lateral">>, <<"anchor", "LAA_lateral">>, <<"LAA", "lateral">>, <<"MV", "lateral">>>>,
        portions |-> <<<<0, 8>>, <<4, 8>>, <<0, 8>>, <<2, 4>>, <<0, 8>>>>,
        outside_path |-> <<"RIPV", "inner">>]
    [] k = <<"laa">> ->
       [boundary_paths |-> <<<<"LAA", "LAA">>>>,
        portions |-> <<<<0, 8>>>>,
        outside_path |-> <<"RIPV", "inner">>]
    [] k = <<"LIPV", "segment_1">> ->
       [boundary_paths |-> <<<<"LIPV", "inner">>, <<"LIPV", "outer">>, <<"LIPV", "anterior_posterior">>, <<"LIPV", "septal_lateral">>>>,
        portions |-> <<<<0, 2>>, <<0, 2>>, <<0, 8>>, <<0, 8>>>>,
        outside_path |-> <<"MV">>]
    [] k = <<"LIPV", "segment_2">> ->
       [boundary_paths |-> <<<<"LIPV", "inner">>, <<"LIPV", "outer">>, <<"LIPV", "septal_lateral">>, <<"LIPV", "anchor">>>>,
        portions |-> <<<<2, 5>>, <<2, 5>>, <<0, 8>>, <<0, 8>>>>,
        outside_path |-> <<"MV">>]
    [] k = <<"LIPV", "segment_3">> ->
       [boundary_paths |-> <<<<"LIPV", "inner">>, <<"LIPV", "outer">>, <<"LIPV", "anchor">>, <<"LIPV", "anterior_posterior">>>>,
        portions |-> <<<<5, 8>>, <<5, 8>>, <<0, 8>>, <<0, 8>>>>,
        outside_path |-> <<"MV">>]
    [] k = <<"LSPV", "segment_1">> ->
       [boundary_paths |-> <<<<"LSPV", "inner">>, <<"LSPV", "outer">>, <<"LSPV", "anterior_posterior">>, <<"LSPV", "septal_lateral">>>>,
        portions |-> <<<<0, 2>>, <<0, 2>>, <<0, 8>>, <<0, 8>>>>,
        outside_path |-> <<"MV">>]
    [] k = <<"LSPV", "segment_2">> ->
       [boundary_paths |-> <<<<"LSPV", "inner">>, <<"LSPV", "outer">>, <<"LSPV", "septal_lateral">>, <<"LSPV", "anchor">>>>,
        portions |-> <<<<2, 5>>, <<2, 5>>, <<0, 8>>, <<0, 8>>>>,
        outside_path |-> <<"MV">>]
    [] k = <<"LSPV", "segment_3">> ->
       [boundary_paths |-> <<<<"LSPV", "inner">>, <<"LSPV", "outer">>, <<"LSPV", "anchor">>, <<"LSPV", "anterior_posterior">>>>,
        portions |-> <<<<5, 8>>, <<5, 8>>, <<0, 8>>, <<0, 8>>>>,
        outside_path |-> <<"MV">>]
    [] k = <<"RSPV", "segment_1">> ->
       [boundary_paths |-> <<<<"RSPV", "inner">>, <<"RSPV", "outer">>, <<"RSPV", "anterior_posterior">>, <<"RSPV", "septal_lateral">>>>,
        portions |-> <<<<0, 2>>, <<0, 2>>, <<0, 8>>, <<0, 8>>>>,
        outside_path |-> <<"MV">>]
    [] k = <<"RSPV", "segment_2">> ->
       [boundary_paths |-> <<<<"RSPV", "inner">>, <<"RSPV", "outer">>, <<"RSPV", "septal_lateral">>, <<"RSPV", "anchor">>>>,
        portions |-> <<<<2, 5>>, <<2, 5>>, <<0, 8>>, <<0, 8>>>>,
        outside_path |-> <<"MV">>]
    [] k = <<"RSPV", "segment_3">> ->
       [boundary_paths |-> <<<<"RSPV", "inner">>, <<"RSPV", "outer">>, <<"RSPV", "anchor">>, <<"RSPV", "anterior_posterior">>>>,
        portions |-> <<<<5, 8>>, <<5, 8>>, <<0, 8>>, <<0, 8>>>>,
        outside_path |-> <<"MV">>]
    [] k = <<"RIPV", "segment_1">> ->
       [boundary_paths |-> <<<<"RIPV", "inner">>, <<"RIPV", "outer">>, <<"RIPV", "anterior_posterior">>, <<"RIPV", "septal_lateral">>>>,
        portions |-> <<<<0, 2>>, <<0, 2>>, <<0, 8>>, <<0, 8>>>>,
        outside_path |-> <<"MV">>]
    [] k = <<"RIPV", "segment_2">> ->
       [boundary_paths |-> <<<<"RIPV", "inner">>, <<"RIPV", "outer">>, <<"RIPV", "septal_lateral">>, <<"RIPV", "anchor">>>>,
        portions |-> <<<<2, 5>>, <<2, 5>>, <<0, 8>>, <<0, 8>>>>,
        outside_path |-> <<"MV">>]
    [] k = <<"RIPV", "segment_3">> ->
       [boundary_paths |-> <<<<"RIPV", "inner">>, <<"RIPV", "outer">>, <<"RIPV", "anchor">>, <<"RIPV", "anterior_posterior">>>>,
        portions |-> <<<<5, 8>>, <<5, 8>>, <<0, 8>>, <<0, 8>>>>,
        outside_path |-> <<"MV">>]

\* workflow.workflow: the default schedule of construct_segmentation.  apply_to = "all" is the
\* flag all = TRUE with an empty list.
workflow ==
  << [id |-> "boundary_extraction", type |-> "feature_extraction", all |-> TRUE, apply_to |-> <<>>],
     [id |-> "path_construction_roof_anchors", type |-> "shortest_path_construction", all |-> FALSE,
      apply_to |-> << <<"roof", "LIPV_LSPV">>,
                      <<"roof", "LSPV_RSPV">>,
                      <<"roof", "RSPV_RIPV">>,
                      <<"roof", "RIPV_LIPV">>,
                      <<"anchor", "LIPV_LAA">>,
                      <<"anchor", "LAA_MV">>,
                      <<"anchor", "LSPV_MV">>,
                      <<"anchor", "RSPV_MV">>,
                      <<"anchor", "RIPV_MV">> >>],
     [id |-> "markers_roof_anchors", type |-> "marker_extraction", all |-> FALSE,
      apply_to |-> << <<"LIPV", "inner", "anterior_posterior">>,
                      <<"LIPV", "inner", "septal_lateral">>,
                      <<"LIPV", "inner", "anchor">>,
                      <<"LSPV", "inner", "anterior_posterior">>,
                      <<"LSPV", "inner", "septal_lateral">>,
                      <<"LSPV", "inner", "anchor">>,
                      <<"RSPV", "inner", "anterior_posterior">>,
                      <<"RSPV", "inner", "septal_lateral">>,
                      <<"RSPV", "inner", "anchor">>,
                      <<"RIPV", "inner", "anterior_posterior">>,
                      <<"RIPV", "inner", "septal_lateral">>,
                      <<"RIPV", "inner", "anchor">>,
                      <<"LAA", "LIPV">>,
                      <<"LAA", "MV">>,
                      <<"MV", "LAA">>,
                      <<"MV", "LSPV">>,
                      <<"MV", "RSPV">>,
                      <<"MV", "RIPV">> >>],
     [id |-> "path_construction_pv_segments", type |-> "shortest_path_construction", all |-> FALSE,
      apply_to |-> << <<"LIPV", "anterior_posterior">>,
                      <<"LIPV", "septal_lateral">>,
                      <<"LIPV", "anchor">>,
                      <<"LSPV", "anterior_posterior">>,
                      <<"LSPV", "septal_lateral">>,
                      <<"LSPV", "anchor">>,
                      <<"RSPV", "anterior_posterior">>,
                      <<"RSPV", "septal_lateral">>,
                      <<"RSPV", "anchor">>,
                      <<"RIPV", "anterior_posterior">>,
                      <<"RIPV", "septal_lateral">>,
                      <<"RIPV", "anchor">> >>],
     [id |-> "markers_pv_segments", type |-> "marker_extraction", all |-> FALSE,
      apply_to |-> << <<"LIPV", "outer", "anterior_posterior">>,
                      <<"LIPV", "outer", "septal_lateral">>,
                      <<"LIPV", "outer", "anchor">>,
                      <<"LSPV", "outer", "anterior_posterior">>,
                      <<"LSPV", "outer", "septal_lateral">>,
                      <<"LSPV", "outer", "anchor">>,
                      <<"RSPV", "outer", "anterior_posterior">>,
                      <<"RSPV", "outer", "septal_lateral">>,
                      <<"RSPV", "outer", "anchor">>,
                      <<"RIPV", "outer", "anterior_posterior">>,
                      <<"RIPV", "outer", "septal_lateral">>,
                      <<"RIPV", "outer", "anchor">> >>],
     [id |-> "path_parameterization_existing", type |-> "path_parameterization", all |-> FALSE,
      apply_to |-> << <<"LIPV", "inner">>,
                      <<"LIPV", "outer">>,
                      <<"LIPV", "anterior_posterior">>,
                      <<"LIPV", "septal_lateral">>,
                      <<"LIPV", "anchor">>,
                      <<"LSPV", "inner">>,
                      <<"LSPV", "outer">>,
                      <<"LSPV", "anterior_posterior">>,
                      <<"LSPV", "septal_lateral">>,
                      <<"LSPV", "anchor">>,
                      <<"RSPV", "inner">>,
                      <<"RSPV", "outer">>,
                      <<"RSPV", "anterior_posterior">>,
                      <<"RSPV", "septal_lateral">>,
                      <<"RSPV", "anchor">>,
                      <<"RIPV", "inner">>,
                      <<"RIPV", "outer">>,
                      <<"RIPV", "anterior_posterior">>,
                      <<"RIPV", "septal_lateral">>,
                      <<"RIPV", "anchor">>,
                      <<"MV">>,
                      <<"roof", "LIPV_LSPV">>,
                      <<"roof", "LSPV_RSPV">>,
                      <<"roof", "RSPV_RIPV">>,
                      <<"roof", "RIPV_LIPV">>,
                      <<"anchor", "LIPV_LAA">>,
                      <<"anchor", "LAA_MV">>,
                      <<"anchor", "RSPV_MV">>,
                      <<"anchor", "LSPV_MV_anterior">>,
                      <<"anchor", "RIPV_MV_septal">> >>],
     [id |-> "markers_laa_anchors", type |-> "marker_extraction", all |-> FALSE,
      apply_to |-> << <<"anchor", "LSPV_MV">>,
                      <<"anchor", "RIPV_MV">> >>],
     [id |-> "path_construction_laa_anchors", type |-> "shortest_path_construction", all |-> FALSE,
      apply_to |-> << <<"anchor", "LAA_lateral">>,
                      <<"anchor", "LAA_posterior">> >>],
     [id |-> "markers_laa_anchors", type |-> "marker_extraction", all |-> FALSE,
      apply_to |-> << <<"LAA", "lateral">>,
                      <<"LAA", "posterior">> >>],
     [id |-> "path_parameterization_remaining", type |-> "path_parameterization", all |-> FALSE,
      apply_to |-> << <<"LAA">>,
                      <<"anchor", "LAA_lateral">>,
                      <<"anchor", "LAA_posterior">>,
                      <<"anchor", "LSPV_MV_lateral">>,
                      <<"anchor", "RIPV_MV_posterior">> >>] >>

\* construct_uacs extracting the submeshes before their boundaries.
construct_uacs_submeshes_first ==
  << [id |-> "construct_uac_paths", type |-> "uac_path_construction", all |-> TRUE, apply_to |-> <<>>],
     [id |-> "extract_submeshes", type |-> "submesh_extraction", all |-> TRUE, apply_to |-> <<>>],
     [id |-> "extract_submesh_boundaries", type |-> "submesh_boundary_extraction", all |-> TRUE, apply_to |-> <<>>],
     [id |-> "compute_uacs_on_submeshes", type |-> "harmonic_extension", all |-> TRUE, apply_to |-> <<>>] >>

\* ULACConstructor.construct_uacs: the four stages it runs, each over every key of its schema
\* section (they take no apply_to).
construct_uacs ==
  << [id |-> "construct_uac_paths", type |-> "uac_path_construction", all |-> TRUE, apply_to |-> <<>>],
     [id |-> "extract_submesh_boundaries", type |-> "submesh_boundary_extraction", all |-> TRUE, apply_to |-> <<>>],
     [id |-> "extract_submeshes", type |-> "submesh_extraction", all |-> TRUE, apply_to |-> <<>>],
     [id |-> "compute_uacs_on_submeshes", type |-> "harmonic_extension", all |-> TRUE, apply_to |-> <<>>] >>

(***************************************************************************)
(* The Artifact Store and the control state of a run                       *)
(***************************************************************************)
VARIABLES
  marker_data,              \* ULACConstructor._marker_data
  raw_path_data,            \* ULACConstructor._raw_path_data
  parameterized_path_data,  \* ULACConstructor._parameterized_path_data
  uac_path_data,            \* ULACConstructor._uac_path_data
  submesh_boundary_data,    \* ULACConstructor._submesh_boundary_data
  submesh_data,             \* ULACConstructor._submesh_data
  uac_submesh_data,         \* ULACConstructor._uac_submesh_data
  todo,                     \* the stage invocations the running call has still to make
  stage,                    \* the stage invocation being executed, or the idle record
  queue,                    \* the key sequences the executing stage has still to process
  status,                   \* "running", "failed" (an exception left the stage) or "done"
  error,                    \* the kind of the exception raised last
  invocations,              \* the number of stage invocations begun so far
  args,                     \* the arguments of a call of one of the algorithms
  result                    \* the local variables of that call while it runs, then what it returned

Store ==
  <<marker_data, raw_path_data, parameterized_path_data, uac_path_data,
    submesh_boundary_data, submesh_data, uac_submesh_data>>

control == <<todo, stage, queue, status, error, invocations>>

call == <<args, result>>

vars == <<Store, control, call>>

\* The value of a Store slot that has not been written (create_empty_dict_from_keys).
None == [type |-> "NoneType", written_by |-> 0]

\* What get_dict_entry yields for a key sequence that is no leaf of the dictionary: the
\* KeyError it raises is an object of no artifact type.
KeyError == [type |-> "KeyError", written_by |-> 0]

\* An artifact of Python type t, written by the stage invocation now executing.
Artifact(t) == [type |-> t, written_by |-> invocations]

create_empty_dict_from_keys(keys) == [k \in Range(keys) |-> None]

get_dict_entry(key_sequence, data_dict) ==
  IF key_sequence \in DOMAIN data_dict THEN data_dict[key_sequence] ELSE KeyError

\* set_dict_entry that assigns the value at every key of the dictionary.
set_dict_entry_at_every_key(key_sequence, data_dict, value) ==
  [k \in DOMAIN data_dict |-> value]

set_dict_entry(key_sequence, data_dict, value) ==
  [data_dict EXCEPT ![key_sequence] = value]

isinstance(value, type) == value.type = type

idle == [id |-> "", type |-> "idle"]

\* ULACConstructor.__init__: every Store section has the keys of its schema section and
\* holds None everywhere.
InitStore ==
  /\ marker_data = create_empty_dict_from_keys(marker_configs_keys)
  /\ raw_path_data = create_empty_dict_from_keys(path_configs_keys)
  /\ parameterized_path_data = create_empty_dict_from_keys(parameterization_configs_keys)
  /\ uac_path_data = create_empty_dict_from_keys(uac_configs_keys)
  /\ submesh_boundary_data = create_empty_dict_from_keys(submesh_configs_keys)
  /\ submesh_data = create_empty_dict_from_keys(submesh_configs_keys)
  /\ uac_submesh_data = create_empty_dict_from_keys(submesh_configs_keys)

NoCall == /\ args = <<>>
          /\ result = <<>>

Reverse(s) == [i \in 1..Len(s) |-> s[Len(s) + 1 - i]]

\* key_sequences iterating over its list from the last key to the first.
key_sequences_reversed(invocation) ==
  Reverse(IF ~invocation.all THEN invocation.apply_to
          ELSE CASE invocation.type \in {"feature_extraction", "shortest_path_construction"} ->
                      path_configs_keys
                 [] invocation.type = "marker_extraction" -> marker_configs_keys
                 [] invocation.type = "path_parameterization" -> parameterization_configs_keys
                 [] invocation.type = "uac_path_construction" -> uac_configs_keys
                 [] OTHER -> submesh_configs_keys)

\* key_sequences with every key sequence listed twice.
key_sequences_twice(invocation) ==
  LET keys == IF ~invocation.all THEN invocation.apply_to
              ELSE CASE invocation.type \in {"feature_extraction", "shortest_path_construction"} ->
                          path_configs_keys
                     [] invocation.type = "marker_extraction" -> marker_configs_keys
                     [] invocation.type = "path_parameterization" -> parameterization_configs_keys
                     [] invocation.type = "uac_path_construction" -> uac_configs_keys
                     [] OTHER -> submesh_configs_keys
  IN keys \o keys

\* The keys a stage invocation iterates over: nested_dict_keys of its schema section for
\* apply_to = "all" (and for the stages of construct_uacs), the given list otherwise.
key_sequences(invocation) ==
  IF ~invocation.all THEN invocation.apply_to
  ELSE CASE invocation.type \in {"feature_extraction", "shortest_path_construction"} ->
              path_configs_keys
         [] invocation.type = "marker_extraction" -> marker_configs_keys
         [] invocation.type = "path_parameterization" -> parameterization_configs_keys
         [] invocation.type = "uac_path_construction" -> uac_configs_keys
         [] OTHER -> submesh_configs_keys

\* Raise with the exception caught inside the loop: the stage goes on with its next key.
Raise_swallowed(kind) ==
  /\ error' = kind
  /\ queue' = Tail(queue)
  /\ UNCHANGED <<Store, todo, stage, status, invocations, call>>

\* An exception leaves the stage: nothing is written, the call is over.
Raise(kind) ==
  /\ status' = "failed"
  /\ error' = kind
  /\ UNCHANGED <<Store, todo, stage, queue, invocations, call>>

\* The loop of the stage goes on to its next key sequence.
Continue ==
  /\ queue' = Tail(queue)
  /\ UNCHANGED <<todo, stage, status, error, invocations, call>>

Executing(type) ==
  /\ status = "running"
  /\ stage.type = type
  /\ queue # <<>>

(***************************************************************************)
(* The stages: one action per iteration of a stage's loop over its keys    *)
(***************************************************************************)

\* _extract_features clearing the slot before it extracts the boundary, so that a failed
\* extraction leaves None behind.
ExtractFeaturesEntry_clearing ==
  /\ status = "running"
  /\ stage.type = "feature_extraction"
  /\ queue # <<>>
  /\ LET key_sequence == Head(queue)
         path_config == path_configs(key_sequence)
     IN IF path_config.class # "BoundaryPathConfig"
        THEN /\ queue' = Tail(queue)
             /\ UNCHANGED <<Store, todo, stage, status, error, invocations, args, result>>
        ELSE \E extracted \in BOOLEAN :
               /\ raw_path_data' =
                    [raw_path_data EXCEPT
                       ![key_sequence] = IF extracted
                                         THEN [type |-> "ndarray", written_by |-> invocations]
                                         ELSE [type |-> "NoneType", written_by |-> 0]]
               /\ queue' = IF extracted THEN Tail(queue) ELSE queue
               /\ status' = IF extracted THEN status ELSE "failed"
               /\ error' = IF extracted THEN error ELSE "algorithm"
               /\ UNCHANGED <<marker_data, parameterized_path_data, uac_path_data,
                              submesh_boundary_data, submesh_data, uac_submesh_data,
                              todo, stage, invocations, args, result>>

\* _extract_features: an entry that is no BoundaryPathConfig is skipped; get_feature_boundary
\* returns the ordered boundary or raises on a malformed topology.
ExtractFeaturesEntry ==
  /\ Executing("feature_extraction")
  /\ LET key_sequence == Head(queue)
         path_config == path_configs(key_sequence)
     IN IF path_config.class # "BoundaryPathConfig"
        THEN Continue /\ UNCHANGED Store
        ELSE \E extracted \in BOOLEAN :
               IF extracted
               THEN /\ raw_path_data' =
                         set_dict_entry(key_sequence, raw_path_data, Artifact("ndarray"))
                    /\ Continue
                    /\ UNCHANGED <<marker_data, parameterized_path_data, uac_path_data,
                                   submesh_boundary_data, submesh_data, uac_submesh_data>>
               ELSE Raise("algorithm")

\* _extract_markers: the containing path is a raw path (index mode) or a parameterized path
\* (relative mode); the position may not exist on it (IndexError).
ExtractMarkersEntry ==
  /\ Executing("marker_extraction")
  /\ LET key_sequence == Head(queue)
         marker_config == marker_configs(key_sequence)
         constructed ==
           IF marker_config.position_type = "index"
           THEN isinstance(get_dict_entry(marker_config.path, raw_path_data), "ndarray")
           ELSE isinstance(get_dict_entry(marker_config.path, parameterized_path_data),
                           "ParameterizedPath")
     IN IF ~constructed
        THEN Raise("missing")
        ELSE \E found \in BOOLEAN :
               IF found
               THEN /\ marker_data' = set_dict_entry(key_sequence, marker_data, Artifact("int"))
                    /\ Continue
                    /\ UNCHANGED <<raw_path_data, parameterized_path_data, uac_path_data,
                                   submesh_boundary_data, submesh_data, uac_submesh_data>>
               ELSE Raise("algorithm")

\* boundary_constructed without the isinstance check of a marker boundary.
boundary_constructed_paths_only(boundary_type, boundary_id) ==
  IF boundary_type = "path"
  THEN isinstance(get_dict_entry(boundary_id, raw_path_data), "ndarray")
  ELSE boundary_type = "marker"

\* The check of one boundary set of _construct_shortest_paths (construction.py:284-304).
boundary_constructed(boundary_type, boundary_id) ==
  IF boundary_type = "path"
  THEN isinstance(get_dict_entry(boundary_id, raw_path_data), "ndarray")
  ELSE /\ boundary_type = "marker"
       /\ isinstance(get_dict_entry(boundary_id, marker_data), "int")

\* The check of one inadmissible set of _construct_shortest_paths (construction.py:309-323).
inadmissible_constructed(inadmissible) ==
  \A i \in DOMAIN inadmissible :
    isinstance(get_dict_entry(inadmissible[i], raw_path_data), "ndarray")

\* _construct_shortest_paths: an entry that is no ConnectionPathConfig is skipped.
ConstructShortestPathsEntry ==
  /\ Executing("shortest_path_construction")
  /\ LET key_sequence == Head(queue)
         path_config == path_configs(key_sequence)
     IN IF path_config.class # "ConnectionPathConfig"
        THEN Continue /\ UNCHANGED Store
        ELSE IF ~ /\ boundary_constructed(path_config.boundary_types[1], path_config.start)
                  /\ boundary_constructed(path_config.boundary_types[2], path_config.end)
                  /\ inadmissible_constructed(path_config.inadmissible_contact)
                  /\ inadmissible_constructed(path_config.inadmissible_along)
        THEN Raise("missing")
        ELSE \E returned \in BOOLEAN :
               IF returned
               THEN /\ raw_path_data' =
                         set_dict_entry(key_sequence, raw_path_data, Artifact("ndarray"))
                    /\ Continue
                    /\ UNCHANGED <<marker_data, parameterized_path_data, uac_path_data,
                                   submesh_boundary_data, submesh_data, uac_submesh_data>>
               ELSE Raise("algorithm")

\* _parameterize_paths
ParameterizePathsEntry ==
  /\ Executing("path_parameterization")
  /\ LET key_sequence == Head(queue)
         param_config == parameterization_configs(key_sequence)
     IN IF ~ /\ isinstance(get_dict_entry(param_config.path, raw_path_data), "ndarray")
             /\ \A i \in DOMAIN param_config.markers :
                  isinstance(get_dict_entry(param_config.markers[i], marker_data), "int")
        THEN Raise("missing")
        ELSE \E parameterized \in BOOLEAN :
               IF parameterized
               THEN /\ parameterized_path_data' =
                         set_dict_entry(key_sequence, parameterized_path_data,
                                        Artifact("ParameterizedPath"))
                    /\ Continue
                    /\ UNCHANGED <<marker_data, raw_path_data, uac_path_data,
                                   submesh_boundary_data, submesh_data, uac_submesh_data>>
               ELSE Raise("algorithm")

\* _construct_uac_paths
ConstructUACPathsEntry ==
  /\ Executing("uac_path_construction")
  /\ LET key_sequence == Head(queue)
         uac_config == uac_configs(key_sequence)
     IN IF ~isinstance(get_dict_entry(uac_config.path, parameterized_path_data),
                       "ParameterizedPath")
        THEN Raise("missing")
        ELSE \E computed \in BOOLEAN :
               IF computed
               THEN /\ uac_path_data' =
                         set_dict_entry(key_sequence, uac_path_data, Artifact("UACPath"))
                    /\ Continue
                    /\ UNCHANGED <<marker_data, raw_path_data, parameterized_path_data,
                                   submesh_boundary_data, submesh_data, uac_submesh_data>>
               ELSE Raise("algorithm")

\* _extract_submesh_boundaries
ExtractSubmeshBoundariesEntry ==
  /\ Executing("submesh_boundary_extraction")
  /\ LET key_sequence == Head(queue)
         submesh_config == submesh_configs(key_sequence)
     IN IF ~ \A i \in DOMAIN submesh_config.boundary_paths :
               isinstance(get_dict_entry(submesh_config.boundary_paths[i], uac_path_data),
                          "UACPath")
        THEN Raise("missing")
        ELSE \E closed \in BOOLEAN :
               IF closed
               THEN /\ submesh_boundary_data' =
                         set_dict_entry(key_sequence, submesh_boundary_data, Artifact("UACPath"))
                    /\ Continue
                    /\ UNCHANGED <<marker_data, raw_path_data, parameterized_path_data,
                                   uac_path_data, submesh_data, uac_submesh_data>>
               ELSE Raise("algorithm")

\* _extract_submeshes
ExtractSubmeshesEntry ==
  /\ Executing("submesh_extraction")
  /\ LET key_sequence == Head(queue)
         submesh_config == submesh_configs(key_sequence)
     IN IF ~ /\ isinstance(get_dict_entry(key_sequence, submesh_boundary_data), "UACPath")
             /\ isinstance(get_dict_entry(submesh_config.outside_path, raw_path_data),
                           "ndarray")
        THEN Raise("missing")
        ELSE \E extracted \in BOOLEAN :
               IF extracted
               THEN /\ submesh_data' =
                         set_dict_entry(key_sequence, submesh_data, Artifact("Submesh"))
                    /\ Continue
                    /\ UNCHANGED <<marker_data, raw_path_data, parameterized_path_data,
                                   uac_path_data, submesh_boundary_data, uac_submesh_data>>
               ELSE Raise("algorithm")

\* _compute_uacs_on_submeshes
ComputeUACsOnSubmeshesEntry ==
  /\ Executing("harmonic_extension")
  /\ LET key_sequence == Head(queue)
     IN IF ~ /\ isinstance(get_dict_entry(key_sequence, submesh_boundary_data), "UACPath")
             /\ isinstance(get_dict_entry(key_sequence, submesh_data), "Submesh")
        THEN Raise("missing")
        ELSE \E solved \in BOOLEAN :
               IF solved
               THEN /\ uac_submesh_data' =
                         set_dict_entry(key_sequence, uac_submesh_data, Artifact("UACSubmesh"))
                    /\ Continue
                    /\ UNCHANGED <<marker_data, raw_path_data, parameterized_path_data,
                                   uac_path_data, submesh_boundary_data, submesh_data>>
               ELSE Raise("algorithm")

\* The loop of the executing stage is exhausted: the stage returns.
ReturnFromStage ==
  /\ status = "running"
  /\ stage.type # "idle"
  /\ queue = <<>>
  /\ stage' = idle
  /\ UNCHANGED <<Store, todo, queue, status, error, invocations, call>>

(***************************************************************************)
(* The default run: construct_segmentation, then construct_uacs            *)
(***************************************************************************)

\* The next stage of the running call begins (the match of construct_segmentation, or the
\* next call of construct_uacs).
BeginStage ==
  /\ status = "running"
  /\ stage.type = "idle"
  /\ todo # <<>>
  /\ stage' = [id |-> Head(todo).id, type |-> Head(todo).type]
  /\ queue' = key_sequences(Head(todo))
  /\ todo' = Tail(todo)
  /\ invocations' = invocations + 1
  /\ UNCHANGED <<Store, status, error, call>>

\* construct_uacs has returned.
Finish ==
  /\ status = "running"
  /\ stage.type = "idle"
  /\ todo = <<>>
  /\ status' = "done"
  /\ UNCHANGED <<Store, todo, stage, queue, error, invocations, call>>

Init ==
  /\ InitStore
  /\ todo = workflow \o construct_uacs
  /\ stage = idle
  /\ queue = <<>>
  /\ status = "running"
  /\ error = "none"
  /\ invocations = 0
  /\ NoCall

Next ==
  \/ BeginStage
  \/ ExtractFeaturesEntry
  \/ ExtractMarkersEntry
  \/ ConstructShortestPathsEntry
  \/ ParameterizePathsEntry
  \/ ConstructUACPathsEntry
  \/ ExtractSubmeshBoundariesEntry
  \/ ExtractSubmeshesEntry
  \/ ComputeUACsOnSubmeshesEntry
  \/ ReturnFromStage
  \/ Finish

Spec == Init /\ [][Next]_vars

(***************************************************************************)
(* Any sequence of stage invocations on one constructor                    *)
(***************************************************************************)

\* The most stage invocations made on one constructor.
MaxInvocations == 4

Invocation(type, apply_to) == [id |-> "direct", type |-> type, all |-> FALSE, apply_to |-> apply_to]

AllOf(type) == [id |-> "direct", type |-> type, all |-> TRUE, apply_to |-> <<>>]

\* The stage invocations a caller chooses from: each stage over all its keys, and the four
\* stages that take apply_to over lists that follow one chain of the schema (the boundaries of
\* LIPV, the roof path LIPV_LSPV, its end markers, the PV segment paths and a relative marker).
StageInvocations ==
  { AllOf("feature_extraction"),
    Invocation("feature_extraction", << <<"LIPV", "inner">>, <<"LSPV", "inner">> >>),
    Invocation("shortest_path_construction", << <<"roof", "LIPV_LSPV">> >>),
    Invocation("shortest_path_construction",
               << <<"LIPV", "anterior_posterior">>, <<"LIPV", "septal_lateral">> >>),
    Invocation("marker_extraction",
               << <<"LIPV", "inner", "anterior_posterior">>,
                  <<"LSPV", "inner", "anterior_posterior">> >>),
    Invocation("marker_extraction", << <<"anchor", "LSPV_MV">> >>),
    Invocation("path_parameterization", << <<"roof", "LIPV_LSPV">> >>),
    Invocation("path_parameterization", << <<"LIPV", "inner">> >>),
    AllOf("uac_path_construction"),
    AllOf("submesh_boundary_extraction"),
    AllOf("submesh_extraction"),
    AllOf("harmonic_extension") }

\* A caller invokes a stage on the constructor: at first, after a stage has returned, or
\* after catching the exception of a failed one.
InvokeStage ==
  /\ \/ status = "running" /\ stage.type = "idle"
     \/ status = "failed"
  /\ invocations < MaxInvocations
  /\ \E invocation \in StageInvocations :
       /\ stage' = [id |-> invocation.id, type |-> invocation.type]
       /\ queue' = key_sequences(invocation)
  /\ status' = "running"
  /\ invocations' = invocations + 1
  /\ UNCHANGED <<Store, todo, error, call>>

InitAnyOrder ==
  /\ InitStore
  /\ todo = <<>>
  /\ stage = idle
  /\ queue = <<>>
  /\ status = "running"
  /\ error = "none"
  /\ invocations = 0
  /\ NoCall

NextAnyOrder ==
  \/ InvokeStage
  \/ ExtractFeaturesEntry
  \/ ExtractMarkersEntry
  \/ ConstructShortestPathsEntry
  \/ ParameterizePathsEntry
  \/ ConstructUACPathsEntry
  \/ ExtractSubmeshBoundariesEntry
  \/ ExtractSubmeshesEntry
  \/ ComputeUACsOnSubmeshesEntry
  \/ ReturnFromStage

SpecAnyOrder == InitAnyOrder /\ [][NextAnyOrder]_vars

(***************************************************************************)
(* What a stage entry reads, from the schema                               *)
(***************************************************************************)

\* The Store section with the given name.
Section(name) ==
  CASE name = "marker" -> marker_data
    [] name = "raw_path" -> raw_path_data
    [] name = "parameterized_path" -> parameterized_path_data
    [] name = "uac_path" -> uac_path_data
    [] name = "submesh_boundary" -> submesh_boundary_data
    [] name = "submesh" -> submesh_data
    [] name = "uac_submesh" -> uac_submesh_data

\* The Python type of the artifacts of a section.
ArtifactType(name) ==
  CASE name = "marker" -> "int"
    [] name = "raw_path" -> "ndarray"
    [] name = "parameterized_path" -> "ParameterizedPath"
    [] name = "uac_path" -> "UACPath"
    [] name = "submesh_boundary" -> "UACPath"
    [] name = "submesh" -> "Submesh"
    [] name = "uac_submesh" -> "UACSubmesh"

\* The section a stage writes.
Writes(type) ==
  CASE type \in {"feature_extraction", "shortest_path_construction"} -> "raw_path"
    [] type = "marker_extraction" -> "marker"
    [] type = "path_parameterization" -> "parameterized_path"
    [] type = "uac_path_construction" -> "uac_path"
    [] type = "submesh_boundary_extraction" -> "submesh_boundary"
    [] type = "submesh_extraction" -> "submesh"
    [] type = "harmonic_extension" -> "uac_submesh"

\* The Store slots <<section, key sequence>> the schema makes the entry key of a stage read.
References(type, key) ==
  CASE type = "feature_extraction" -> {}
    [] type = "marker_extraction" ->
         LET c == marker_configs(key)
         IN {<<IF c.position_type = "index" THEN "raw_path" ELSE "parameterized_path", c.path>>}
    [] type = "shortest_path_construction" ->
         LET c == path_configs(key)
         IN IF c.class # "ConnectionPathConfig" THEN {}
            ELSE {<<IF c.boundary_types[1] = "path" THEN "raw_path" ELSE "marker", c.start>>,
                  <<IF c.boundary_types[2] = "path" THEN "raw_path" ELSE "marker", c.end>>}
                 \cup {<<"raw_path", p>> : p \in Range(c.inadmissible_contact)}
                 \cup {<<"raw_path", p>> : p \in Range(c.inadmissible_along)}
    [] type = "path_parameterization" ->
         LET c == parameterization_configs(key)
         IN {<<"raw_path", c.path>>} \cup {<<"marker", m>> : m \in Range(c.markers)}
    [] type = "uac_path_construction" -> {<<"parameterized_path", uac_configs(key).path>>}
    [] type = "submesh_boundary_extraction" ->
         {<<"uac_path", p>> : p \in Range(submesh_configs(key).boundary_paths)}
    [] type = "submesh_extraction" ->
         {<<"submesh_boundary", key>>, <<"raw_path", submesh_configs(key).outside_path>>}
    [] type = "harmonic_extension" -> {<<"submesh_boundary", key>>, <<"submesh", key>>}

\* The slot has been written: it holds an artifact of its section's type.
Produced(slot) ==
  /\ slot[2] \in DOMAIN Section(slot[1])
  /\ Section(slot[1])[slot[2]].type = ArtifactType(slot[1])

\* A stage is about to process the entry Head(queue).
EntryPending ==
  /\ status = "running"
  /\ stage.type # "idle"
  /\ queue # <<>>

\* The slots the pending (or failed) entry reads that have not been written.
MissingReferences == {slot \in References(stage.type, Head(queue)) : ~Produced(slot)}

\* The slot the pending (or failed) entry writes.
EntrySlot == Section(Writes(stage.type))[Head(queue)]

(***************************************************************************)
(* C1  Produced-before-read.  After any sequence of stage invocations, an  *)
(* entry that references a raw path, marker, parameterized path, UAC path, *)
(* submesh boundary or submesh whose slot has not been written fails, and  *)
(* the step writes nothing to the Store.                                   *)
(***************************************************************************)
C1_ProducedBeforeRead ==
  [][(EntryPending /\ MissingReferences # {}) => (status' = "failed" /\ Store' = Store)]_vars

\* A shortest-path entry has failed on a boundary or inadmissible set not yet constructed,
\* after other artifacts had been written.
C1_Witness ==
  /\ status = "failed"
  /\ error = "missing"
  /\ stage.type = "shortest_path_construction"
  /\ MissingReferences # {}
  /\ \E k \in DOMAIN raw_path_data : raw_path_data[k] # None
  /\ EntrySlot = None

(***************************************************************************)
(* C2  With the default schema and the default workflow, construct_segmen- *)
(* tation followed by construct_uacs never hits a missing dependency:      *)
(* everything an entry reads has been written before the entry is          *)
(* processed.                                                              *)
(***************************************************************************)
C2_DefaultRunReadsProduced ==
  /\ error # "missing"
  /\ EntryPending => MissingReferences = {}

\* The default run has completed and every coordinate submesh is written.
C2_Witness ==
  /\ status = "done"
  /\ error = "none"
  /\ \A k \in DOMAIN uac_submesh_data : uac_submesh_data[k].type = "UACSubmesh"

\* The slots the pending entry reads that were written by the step now executing.
SameStepReferences ==
  {slot \in References(stage.type, Head(queue)) :
     Produced(slot) /\ Section(slot[1])[slot[2]].written_by = invocations}

(***************************************************************************)
(* C3  (as claimed) No entry of a step of the default workflow reads an    *)
(* artifact that another entry of the same step writes.                    *)
(***************************************************************************)
C3_NoSameStepRead == EntryPending => SameStepReferences = {}

\* The steps of the default workflow in which an entry reads what an earlier entry of the
\* step has written.
OrderedSteps == {"path_construction_roof_anchors", "path_construction_pv_segments"}

(***************************************************************************)
(* C3  (amended) In every step of the default run each entry writes a key  *)
(* no earlier entry of the step has written, nothing an entry reads is     *)
(* written by a later entry of the step, and an entry reads what an        *)
(* earlier entry of its step wrote only in the two shortest-path steps     *)
(* path_construction_roof_anchors and path_construction_pv_segments.       *)
(***************************************************************************)
C3_SameStepReadsOnlyEarlier ==
  EntryPending =>
    /\ EntrySlot.written_by # invocations
    /\ MissingReferences = {}
    /\ \A i \in 2..Len(queue) :
         <<Writes(stage.type), queue[i]>> \notin References(stage.type, Head(queue))
    /\ SameStepReferences # {} => stage.id \in OrderedSteps

\* The entry anchor/LSPV_MV is about to read the paths anchor/LIPV_LAA and anchor/LAA_MV that
\* its own step has just written.
C3_Witness ==
  /\ EntryPending
  /\ stage.id = "path_construction_roof_anchors"
  /\ Head(queue) = <<"anchor", "LSPV_MV">>
  /\ {<<"raw_path", <<"anchor", "LIPV_LAA">>>>, <<"raw_path", <<"anchor", "LAA_MV">>>>}
       \subseteq SameStepReferences

(***************************************************************************)
(* C4  Fail-fast with an intact Store: once an entry has failed, the run   *)
(* is over; the failing step and every later step leave the whole Store as *)
(* it was, so the artifacts written before keep their values and neither   *)
(* the failing key nor any later entry is written.                         *)
(***************************************************************************)
C4_FailFastStoreIntact ==
  [][error' # "none" => (Store' = Store /\ status' = "failed")]_vars

\* A parameterization entry has failed after earlier entries of its step were written; its
\* own key and the keys of the entries after it hold None.
C4_Witness ==
  /\ status = "failed"
  /\ error = "algorithm"
  /\ stage.type = "path_parameterization"
  /\ \E k \in DOMAIN parameterized_path_data :
       parameterized_path_data[k].written_by = invocations
  /\ \A i \in DOMAIN queue : parameterized_path_data[queue[i]] = None
  /\ todo # <<>>

\* Every slot of every section that holds an artifact keeps exactly that artifact.
WrittenSlotsKept ==
  /\ \A k \in DOMAIN marker_data : marker_data[k] # None => marker_data'[k] = marker_data[k]
  /\ \A k \in DOMAIN raw_path_data :
       raw_path_data[k] # None => raw_path_data'[k] = raw_path_data[k]
  /\ \A k \in DOMAIN parameterized_path_data :
       parameterized_path_data[k] # None
         => parameterized_path_data'[k] = parameterized_path_data[k]
  /\ \A k \in DOMAIN uac_path_data :
       uac_path_data[k] # None => uac_path_data'[k] = uac_path_data[k]
  /\ \A k \in DOMAIN submesh_boundary_data :
       submesh_boundary_data[k] # None => submesh_boundary_data'[k] = submesh_boundary_data[k]
  /\ \A k \in DOMAIN submesh_data :
       submesh_data[k] # None => submesh_data'[k] = submesh_data[k]
  /\ \A k \in DOMAIN uac_submesh_data :
       uac_submesh_data[k] # None => uac_submesh_data'[k] = uac_submesh_data[k]

\* Every slot of every section that holds an artifact holds an artifact of the same type
\* afterwards.
WrittenSlotsStayWritten ==
  /\ \A k \in DOMAIN marker_data : marker_data[k] # None => marker_data'[k].type = "int"
  /\ \A k \in DOMAIN raw_path_data :
       raw_path_data[k] # None => raw_path_data'[k].type = "ndarray"
  /\ \A k \in DOMAIN parameterized_path_data :
       parameterized_path_data[k] # None
         => parameterized_path_data'[k].type = "ParameterizedPath"
  /\ \A k \in DOMAIN uac_path_data :
       uac_path_data[k] # None => uac_path_data'[k].type = "UACPath"
  /\ \A k \in DOMAIN submesh_boundary_data :
       submesh_boundary_data[k] # None => submesh_boundary_data'[k].type = "UACPath"
  /\ \A k \in DOMAIN submesh_data :
       submesh_data[k] # None => submesh_data'[k].type = "Submesh"
  /\ \A k \in DOMAIN uac_submesh_data :
       uac_submesh_data[k] # None => uac_submesh_data'[k].type = "UACSubmesh"

(***************************************************************************)
(* C5  (as claimed) Write-once: after any sequence of stage invocations a  *)
(* Store key that has been written is never written a second time.         *)
(***************************************************************************)
C5_WriteOnce == [][WrittenSlotsKept]_vars

(***************************************************************************)
(* C5  (amended) After any sequence of stage invocations a Store key that  *)
(* has been written never returns to None: a later invocation of the stage *)
(* that produces it replaces the artifact in full by one of the same type. *)
(***************************************************************************)
C5_NeverAbsentAgain == [][WrittenSlotsStayWritten]_vars

\* The boundary LIPV/inner, written by the first stage invocation together with LSPV/inner,
\* has been written again by the second.
C5_Witness ==
  /\ raw_path_data[<<"LSPV", "inner">>] = [type |-> "ndarray", written_by |-> 1]
  /\ raw_path_data[<<"LIPV", "inner">>] = [type |-> "ndarray", written_by |-> 2]

\* ---------------------------------------------------------------------------
\* construct_shortest_path_between_subsets (construction_base.py:80-109)
\*
\* A mesh enters the function through tm_mesh.edges_unique and
\* tm_mesh.edges_unique_length only: the sequence of its edges <<u, v>> with
\* u < v over the points 0 .. n_points - 1, and the length of each edge.  Edge
\* lengths are positive integers (a length unit fine enough for the mesh).
\* ---------------------------------------------------------------------------

\* Three triangles in a strip, faces (0,1,2), (1,2,3), (2,3,4).
strip_edges == << <<0, 1>>, <<0, 2>>, <<1, 2>>, <<1, 3>>, <<2, 3>>, <<2, 4>>, <<3, 4>> >>

Meshes ==
  { [n_points |-> 5, edges_unique |-> strip_edges,
     edges_unique_length |-> <<1, 1, 1, 1, 1, 1, 1>>],
    [n_points |-> 5, edges_unique |-> strip_edges,
     edges_unique_length |-> <<1, 3, 1, 3, 1, 3, 1>>] }

\* The value graph.distances gives for a target that cannot be reached (float inf).
inf == 1000

Max(S) == CHOOSE x \in S : \A y \in S : y <= x

Min(S) == CHOOSE x \in S : \A y \in S : x <= y

\* The contact filter asking for both endpoints in the set, as the along filter does.
inadmissible_contact_edges_all(edges, inadmissible_contact_set) ==
  {i \in DOMAIN edges : edges[i][1] \in inadmissible_contact_set
                        /\ edges[i][2] \in inadmissible_contact_set}

\* np.where(np.isin(edges, inadmissible_contact_set).any(axis=1))[0]
inadmissible_contact_edges(edges, inadmissible_contact_set) ==
  {i \in DOMAIN edges : edges[i][1] \in inadmissible_contact_set
                        \/ edges[i][2] \in inadmissible_contact_set}

\* np.where(np.isin(edges, inadmissible_along_set).all(axis=1))[0]
inadmissible_along_edges(edges, inadmissible_along_set) ==
  {i \in DOMAIN edges : edges[i][1] \in inadmissible_along_set
                        /\ edges[i][2] \in inadmissible_along_set}

\* np.delete(rows, indices, axis=0): the rows that remain, in their order.
RECURSIVE np_delete(_, _)
np_delete(rows, indices) ==
  IF rows = <<>> THEN <<>>
  ELSE LET front == np_delete(SubSeq(rows, 1, Len(rows) - 1), indices)
       IN IF Len(rows) \in indices THEN front ELSE Append(front, rows[Len(rows)])

\* ig.Graph(edges, directed=False): the vertices are 0 .. (largest id in an edge).
Graph(edges, weights) ==
  [vcount |-> IF edges = <<>> THEN 0
              ELSE Max({edges[i][1] : i \in DOMAIN edges} \cup {edges[i][2] : i \in DOMAIN edges}) + 1,
   edges |-> edges,
   weights |-> weights]

\* The neighbours of a vertex with the weight of the connecting edge.
incident(graph, v) ==
  {<<graph.edges[i][2], graph.weights[i]>> : i \in {j \in DOMAIN graph.edges : graph.edges[j][1] = v}}
  \cup
  {<<graph.edges[i][1], graph.weights[i]>> : i \in {j \in DOMAIN graph.edges : graph.edges[j][2] = v}}

\* A function with all its values computed (f @@ <<>> is f).
values(f) == f @@ <<>>

\* One round of relaxation of every edge, repeated vcount - 1 times: the
\* weighted distance of every vertex from the source, inf where there is no path.
RECURSIVE relax(_, _, _)
relax(graph, dist, rounds) ==
  IF rounds <= 0 THEN dist
  ELSE relax(graph,
             values([v \in DOMAIN dist |->
                       Min({dist[v]} \cup {dist[e[1]] + e[2] :
                                             e \in {f \in incident(graph, v) : dist[f[1]] < inf}})]),
             rounds - 1)

distances_from(graph, source) ==
  relax(graph, values([v \in 0..(graph.vcount - 1) |-> IF v = source THEN 0 ELSE inf]),
        graph.vcount - 1)

\* graph.distances(source, target, weights): one row per source, one column per target.
distances(graph, source, target) ==
  values([i \in DOMAIN source |->
            LET dist == distances_from(graph, source[i])
            IN values([j \in DOMAIN target |-> dist[target[j]]])])

\* np.argmin replaced by the first entry of the matrix.
argmin_first(matrix) == <<0, 0>>

\* np.unravel_index(np.argmin(matrix), matrix.shape): the first least entry in
\* row-major order, as zero-based <<row, column>>.
argmin(matrix) ==
  LET columns == Len(matrix[1])
      flat(k) == matrix[(k \div columns) + 1][(k % columns) + 1]
      size == Len(matrix) * columns
      k == CHOOSE a \in 0..(size - 1) :
             \A b \in 0..(size - 1) : flat(a) <= flat(b) /\ (b < a => flat(b) > flat(a))
  IN <<k \div columns, k % columns>>

\* The shortest paths from the source of dist to vertex to, following the edges
\* that are tight for dist.
RECURSIVE tight_paths(_, _, _)
tight_paths(graph, dist, to) ==
  IF dist[to] = 0 THEN {<<to>>}
  ELSE UNION {{Append(p, to) : p \in tight_paths(graph, dist, e[1])} :
                e \in {f \in incident(graph, to) :
                         dist[f[1]] < inf /\ dist[f[1]] + f[2] = dist[to]}}

\* graph.get_shortest_paths(v, to=to, weights)[0]: one of the shortest paths
\* (which one is the library's choice); the empty list when to cannot be reached.
get_shortest_paths(graph, v, to) ==
  LET dist == distances_from(graph, v)
  IN IF dist[to] >= inf THEN {<<>>} ELSE tight_paths(graph, dist, to)

\* The outcomes of construct_shortest_path_between_subsets: an exception of the
\* graph library when a start or end vertex is no vertex of the graph built
\* from the admissible edges, the returned array otherwise.
construct_shortest_path_between_subsets(mesh, subset_one, subset_two, inadmissible_contact_set, inadmissible_along_set) ==
  LET edges == mesh.edges_unique
      edge_lengths == mesh.edges_unique_length
      inadmissible_edges ==
        inadmissible_contact_edges(edges, inadmissible_contact_set)
        \cup inadmissible_along_edges(edges, inadmissible_along_set)
      admissible_edges == np_delete(edges, inadmissible_edges)
      admissible_edges_lengths == np_delete(edge_lengths, inadmissible_edges)
      graph == Graph(admissible_edges, admissible_edges_lengths)
  IN IF \E v \in Range(subset_one) \cup Range(subset_two) : v >= graph.vcount
     THEN {[raised |-> TRUE, shortest_path |-> <<>>]}
     ELSE LET rel == argmin(distances(graph, subset_one, subset_two))
          IN {[raised |-> FALSE, shortest_path |-> p] :
                p \in get_shortest_paths(graph, subset_one[rel[1] + 1], subset_two[rel[2] + 1])}

\* Bounds of the inputs of the path construction: the size of a boundary set
\* and of the two inadmissible sets.
MaxBoundary == 2

MaxContact == 1

MaxAlong == 2

\* The arrays of at most size distinct points of a mesh, listed in ascending order.
arrays(points, size) ==
  {a \in UNION {[1..n -> points] : n \in 0..size} :
     \A i, j \in DOMAIN a : i < j => a[i] < a[j]}

\* The arguments _construct_shortest_paths passes on (construction.py:326-328):
\* two disjoint non-empty boundary sets and the two inadmissible sets.
ShortestPathArguments(a) ==
  \E mesh \in Meshes :
    \E one, two \in arrays(0..(mesh.n_points - 1), MaxBoundary) \ {<<>>} :
      \E contact, along \in SUBSET (0..(mesh.n_points - 1)) :
        /\ Range(one) \cap Range(two) = {}
        /\ Cardinality(contact) <= MaxContact
        /\ Cardinality(along) <= MaxAlong
        /\ a = [mesh |-> mesh, subset_one |-> one, subset_two |-> two,
                inadmissible_contact_set |-> contact, inadmissible_along_set |-> along]

\* The connection path the call is made for.
connection_key == <<"roof", "LIPV_LSPV">>

\* _construct_shortest_paths at the call of the path construction
\* (construction.py:326-331): an exception leaves the stage, a returned array
\* is written to the Store as it is.
ConstructShortestPath ==
  /\ Executing("shortest_path_construction")
  /\ args # <<>>
  /\ result = <<>>
  /\ \E r \in construct_shortest_path_between_subsets(
                 args.mesh, args.subset_one, args.subset_two,
                 args.inadmissible_contact_set, args.inadmissible_along_set) :
       /\ result' = r
       /\ IF r.raised
          THEN /\ status' = "failed"
               /\ error' = "algorithm"
               /\ UNCHANGED <<Store, todo, stage, queue, invocations, args>>
          ELSE /\ raw_path_data' =
                    set_dict_entry(Head(queue), raw_path_data,
                                   [type |-> "ndarray", written_by |-> invocations,
                                    inds |-> r.shortest_path])
               /\ queue' = Tail(queue)
               /\ UNCHANGED <<marker_data, parameterized_path_data, uac_path_data,
                              submesh_boundary_data, submesh_data, uac_submesh_data,
                              todo, stage, status, error, invocations, args>>

InitShortestPath ==
  /\ InitStore
  /\ todo = <<>>
  /\ stage = [id |-> "path_construction_roof_anchors", type |-> "shortest_path_construction"]
  /\ queue = <<connection_key>>
  /\ status = "running"
  /\ error = "none"
  /\ invocations = 1
  /\ ShortestPathArguments(args)
  /\ result = <<>>

NextShortestPath == ConstructShortestPath

SpecShortestPath == InitShortestPath /\ [][NextShortestPath]_vars

\* ---------------------------------------------------------------------------
\* Claims about the path construction.  Admissibility, connection and the
\* least length are stated here over the walks of the mesh, without the
\* distance computation of the model.
\* ---------------------------------------------------------------------------

\* The index of the mesh edge between u and v, 0 if there is none.
EdgeBetween(mesh, u, v) ==
  LET found == {i \in DOMAIN mesh.edges_unique :
                  mesh.edges_unique[i] = <<u, v>> \/ mesh.edges_unique[i] = <<v, u>>}
  IN IF found = {} THEN 0 ELSE CHOOSE i \in found : TRUE

TouchesContact(a, u, v) ==
  u \in a.inadmissible_contact_set \/ v \in a.inadmissible_contact_set

RunsAlong(a, u, v) ==
  u \in a.inadmissible_along_set /\ v \in a.inadmissible_along_set

AdmissibleEdge(a, u, v) ==
  /\ EdgeBetween(a.mesh, u, v) # 0
  /\ ~TouchesContact(a, u, v)
  /\ ~RunsAlong(a, u, v)

\* The paths without a repeated vertex that leave from the last vertex of one
\* of the given paths, along admissible edges (filtered) or along any mesh edge.
RECURSIVE Extensions(_, _, _)
Extensions(a, paths, filtered) ==
  LET longer == {Append(p, v) : p \in paths, v \in 0..(a.mesh.n_points - 1)}
      next == {p \in longer :
                 /\ p[Len(p)] \notin Range(SubSeq(p, 1, Len(p) - 1))
                 /\ IF filtered THEN AdmissibleEdge(a, p[Len(p) - 1], p[Len(p)])
                    ELSE EdgeBetween(a.mesh, p[Len(p) - 1], p[Len(p)]) # 0}
  IN IF next = {} THEN paths ELSE paths \cup Extensions(a, next, filtered)

\* The paths from a vertex of subset_one to a vertex of subset_two.
Connections(a, filtered) ==
  {p \in Extensions(a, {<<s>> : s \in Range(a.subset_one)}, filtered) :
     p[Len(p)] \in Range(a.subset_two)}

RECURSIVE PathLength(_, _)
PathLength(mesh, p) ==
  IF Len(p) <= 1 THEN 0
  ELSE mesh.edges_unique_length[EdgeBetween(mesh, p[1], p[2])] + PathLength(mesh, Tail(p))

Connected(a) == Connections(a, TRUE) # {}

Returned == result # <<>> /\ ~result.raised

\* C6 (as stated): whenever the two subsets are disconnected after filtering,
\* the path construction fails with an error; it never returns an empty path,
\* and the stage never writes an empty raw path to the Store.
C6_DisconnectedFails ==
  result # <<>> =>
    /\ ~Connected(args) => (result.raised /\ error = "algorithm")
    /\ Returned => result.shortest_path # <<>>
    /\ raw_path_data[connection_key].type = "ndarray"
         => raw_path_data[connection_key].inds # <<>>

\* C7: for subsets that are connected after filtering, the returned path
\* begins at a vertex of subset_one, ends at a vertex of subset_two, every
\* consecutive pair of it is an admissible mesh edge, and no admissible path
\* between any vertex of subset_one and any vertex of subset_two is shorter.
C7_ShortestAdmissiblePath ==
  (Returned /\ Connected(args)) =>
    LET p == result.shortest_path
    IN /\ p # <<>>
       /\ p[1] \in Range(args.subset_one)
       /\ p[Len(p)] \in Range(args.subset_two)
       /\ \A i \in 1..(Len(p) - 1) : AdmissibleEdge(args, p[i], p[i + 1])
       /\ \A q \in Connections(args, TRUE) :
            PathLength(args.mesh, p) <= PathLength(args.mesh, q)
       /\ raw_path_data[connection_key].inds = p

\* A path of three edges was returned that does not leave from the first
\* vertex of subset_one, although that vertex is connected to subset_two too.
C7_Witness ==
  /\ Returned
  /\ Len(result.shortest_path) = 4
  /\ Len(args.subset_one) = 2
  /\ result.shortest_path[1] = args.subset_one[2]
  /\ \E q \in Connections(args, TRUE) : q[1] = args.subset_one[1]

\* C8: the returned path never traverses an edge that touches a vertex of the
\* inadmissible contact set, nor an edge with both endpoints in the
\* inadmissible along set.
C8_NoInadmissibleEdge ==
  Returned =>
    \A i \in 1..(Len(result.shortest_path) - 1) :
      /\ ~TouchesContact(args, result.shortest_path[i], result.shortest_path[i + 1])
      /\ ~RunsAlong(args, result.shortest_path[i], result.shortest_path[i + 1])

\* A path was returned that is longer than the shortest connection over all
\* mesh edges, which uses an edge of each inadmissible kind.
C8_Witness ==
  /\ Returned
  /\ result.shortest_path # <<>>
  /\ \E q \in Connections(args, FALSE) :
       /\ PathLength(args.mesh, q) < PathLength(args.mesh, result.shortest_path)
       /\ \E i \in 1..(Len(q) - 1) : TouchesContact(args, q[i], q[i + 1])
       /\ \E i \in 1..(Len(q) - 1) :
            RunsAlong(args, q[i], q[i + 1]) /\ ~TouchesContact(args, q[i], q[i + 1])

\* ---------------------------------------------------------------------------
\* Floating-point numbers (the float64 of path lengths, relative lengths and
\* coordinates): binary, with Precision significant bits, every operation
\* rounded to the nearest representable value, ties to even.  A number is a
\* fraction <<numerator, denominator>> in lowest terms with a positive
\* denominator.  Overflow and underflow are out of reach of the values used.
\* ---------------------------------------------------------------------------

\* The number of significant bits (53 in float64).
Precision == 4

Abs(x) == IF x < 0 THEN -x ELSE x

RECURSIVE gcd(_, _)
gcd(a, b) == IF b = 0 THEN a ELSE gcd(b, a % b)

\* The fraction n / d in lowest terms (d # 0).
fraction(n, d) ==
  LET g == gcd(Abs(n), Abs(d))
  IN IF d < 0 THEN <<(-n) \div g, (-d) \div g>> ELSE <<n \div g, d \div g>>

\* n / d = m * 2^k with 2^(Precision - 1) <= m < 2^Precision: <<k, n', d'>>
\* with m = n' / d', found by doubling d or n (n > 0).
RECURSIVE normalize(_, _, _)
normalize(k, n, d) ==
  IF n >= 2^Precision * d THEN normalize(k + 1, n, 2 * d)
  ELSE IF n < 2^(Precision - 1) * d THEN normalize(k - 1, 2 * n, d)
  ELSE <<k, n, d>>

\* Rounding of an exact value to Precision significant bits, ties to even.
round(q) ==
  IF q[1] = 0 THEN q
  ELSE LET scaled == normalize(0, Abs(q[1]), q[2])
           k == scaled[1]
           quotient == scaled[2] \div scaled[3]
           remainder == scaled[2] % scaled[3]
           m == IF 2 * remainder > scaled[3]
                   \/ (2 * remainder = scaled[3] /\ quotient % 2 = 1)
                THEN quotient + 1 ELSE quotient
           sign == IF q[1] < 0 THEN -1 ELSE 1
       IN IF k >= 0 THEN fraction(sign * m * 2^k, 1) ELSE fraction(sign * m, 2^(-k))

float(n, d) == round(fraction(n, d))

add(a, b) == round(fraction(a[1] * b[2] + b[1] * a[2], a[2] * b[2]))

subtract(a, b) == round(fraction(a[1] * b[2] - b[1] * a[2], a[2] * b[2]))

multiply(a, b) == round(fraction(a[1] * b[1], a[2] * b[2]))

\* b is not 0.
divide(a, b) == round(fraction(a[1] * b[2], a[2] * b[1]))

less(a, b) == a[1] * b[2] < b[1] * a[2]

equal(a, b) == a[1] * b[2] = b[1] * a[2]

\* ---------------------------------------------------------------------------
\* parameterize_path (construction_base.py:191-254).  Arrays are sequences;
\* the indices the code computes are kept zero-based.
\* ---------------------------------------------------------------------------

\* np.roll(array, shift)
np_roll(array, shift) ==
  [i \in 1..Len(array) |-> array[((i - 1 - shift) % Len(array)) + 1]]

\* np.flip(array)
np_flip(array) == [i \in 1..Len(array) |-> array[Len(array) + 1 - i]]

\* np.where(array == value)[0][0]; the caller's value occurs in the array.
where(array, value) == Min({i \in 1..Len(array) : array[i] = value}) - 1

\* np.argsort of a list of numbers: the zero-based positions in ascending
\* order of their entries, equal entries in the order of their positions.
argsort(numbers) ==
  LET before(i, j) == less(numbers[i], numbers[j]) \/ (equal(numbers[i], numbers[j]) /\ i < j)
      rank(i) == Cardinality({j \in DOMAIN numbers : before(j, i)})
  IN [r \in 1..Len(numbers) |-> (CHOOSE i \in DOMAIN numbers : rank(i) = r - 1) - 1]

\* _reorder_path_by_markers without the reversal: the rolled path is returned
\* whatever the order of the markers on it.
reorder_path_by_markers_rolled(path, marker_inds, marker_values) ==
  LET relative_start_ind_location == where(path, marker_inds[1])
      rolled == np_roll(path, -relative_start_ind_location)
  IN <<rolled, [m \in DOMAIN marker_inds |-> where(rolled, marker_inds[m])]>>

\* _reorder_path_by_markers: <<ordered_path, relative_marker_inds>>
reorder_path_by_markers(path, marker_inds, marker_values) ==
  LET relative_start_ind_location == where(path, marker_inds[1])
      rolled == np_roll(path, -relative_start_ind_location)
      rolled_marker_inds == [m \in DOMAIN marker_inds |-> where(rolled, marker_inds[m])]
      marker_ind_order == argsort([m \in DOMAIN marker_inds |-> <<rolled_marker_inds[m], 1>>])
      marker_values_order == argsort(marker_values)
      flipped == np_roll(np_flip(rolled), 1)
  IN IF marker_ind_order # marker_values_order
     THEN <<flipped, [m \in DOMAIN marker_inds |-> where(flipped, marker_inds[m])]>>
     ELSE <<rolled, rolled_marker_inds>>

\* The cumulative lengths with every edge counted as one unit long.
cumsum_of_edge_counts(edge_lengths) == [i \in 1..(Len(edge_lengths) + 1) |-> <<i - 1, 1>>]

\* np.insert(np.cumsum(edge_lengths), 0, 0.0)
RECURSIVE cumsum(_)
cumsum(edge_lengths) ==
  IF edge_lengths = <<>> THEN << <<0, 1>> >>
  ELSE LET front == cumsum(SubSeq(edge_lengths, 1, Len(edge_lengths) - 1))
       IN Append(front, add(front[Len(front)], edge_lengths[Len(edge_lengths)]))

\* The segments of _parameterize_by_relative_length with an empty slice passed
\* over instead of raising.
RECURSIVE segments_passing_empty(_, _, _, _, _)
segments_passing_empty(i, relative_marker_inds, marker_values, cumulative_lengths, segmented_points) ==
  IF i > Len(relative_marker_inds) - 1
  THEN [raised |-> FALSE, relative_lengths |-> segmented_points]
  ELSE LET start_ind == relative_marker_inds[i]
           end_ind == relative_marker_inds[i + 1]
           start_value == marker_values[i]
           end_value == marker_values[i + 1]
           last == subtract(cumulative_lengths[end_ind + 1], cumulative_lengths[start_ind + 1])
           relative_length(j) ==
             add(start_value,
                 divide(multiply(subtract(end_value, start_value),
                                 subtract(cumulative_lengths[j], cumulative_lengths[start_ind + 1])),
                        last))
       IN segments_passing_empty(i + 1, relative_marker_inds, marker_values, cumulative_lengths,
                                 values([j \in DOMAIN segmented_points |->
                                           IF start_ind + 1 <= j /\ j <= end_ind + 1
                                           THEN relative_length(j) ELSE segmented_points[j]]))

\* The segments of _parameterize_by_relative_length from segment i on, written
\* one after the other into segmented_points; an empty slice ends the loop
\* with the IndexError of shifted_cumulative_lengths[-1].
RECURSIVE segments(_, _, _, _, _)
segments(i, relative_marker_inds, marker_values, cumulative_lengths, segmented_points) ==
  IF i > Len(relative_marker_inds) - 1
  THEN [raised |-> FALSE, relative_lengths |-> segmented_points]
  ELSE LET start_ind == relative_marker_inds[i]
           end_ind == relative_marker_inds[i + 1]
           start_value == marker_values[i]
           end_value == marker_values[i + 1]
           last == subtract(cumulative_lengths[end_ind + 1], cumulative_lengths[start_ind + 1])
           relative_length(j) ==
             add(start_value,
                 divide(multiply(subtract(end_value, start_value),
                                 subtract(cumulative_lengths[j], cumulative_lengths[start_ind + 1])),
                        last))
       IN IF start_ind > end_ind
          THEN [raised |-> TRUE, relative_lengths |-> <<>>]
          ELSE segments(i + 1, relative_marker_inds, marker_values, cumulative_lengths,
                        values([j \in DOMAIN segmented_points |->
                                  IF start_ind + 1 <= j /\ j <= end_ind + 1
                                  THEN relative_length(j) ELSE segmented_points[j]]))

\* _parameterize_by_relative_length; distance gives the length of the edge
\* between two points that follow one another along the path.
parameterize_by_relative_length(distance, path, relative_marker_inds, marker_values) ==
  LET closing == \A m \in DOMAIN marker_values : ~equal(marker_values[m], <<1, 1>>)
      closed_path == IF closing THEN Append(path, path[1]) ELSE path
      closed_marker_inds ==
        IF closing THEN Append(relative_marker_inds, Len(closed_path) - 1)
        ELSE relative_marker_inds
      closed_marker_values == IF closing THEN Append(marker_values, <<1, 1>>) ELSE marker_values
      edge_lengths == [i \in 1..(Len(closed_path) - 1) |->
                         distance[{closed_path[i], closed_path[i + 1]}]]
      cumulative_lengths == cumsum(edge_lengths)
      outcome == segments(1, closed_marker_inds, closed_marker_values, cumulative_lengths,
                          [j \in DOMAIN closed_path |-> <<0, 1>>])
  IN [raised |-> outcome.raised,
      inds |-> IF outcome.raised THEN <<>> ELSE closed_path,
      relative_lengths |-> outcome.relative_lengths]

parameterize_path(distance, path, marker_inds, marker_values) ==
  LET reordered == reorder_path_by_markers(path, marker_inds, marker_values)
  IN parameterize_by_relative_length(distance, reordered[1], reordered[2], marker_values)

\* Bounds of the inputs of the parameterization: the number of points of a
\* path and the number of markers on it.
MaxPath == 4

MaxMarkers == 4

\* The target values markers are given, among them PV_SEPTAL_LATERAL = 1/4 and
\* PV_ANCHOR = 5/8 (configuration.py:279-280) and the quarters of the mitral
\* valve (configuration.py:473).
marker_positions == {<<0, 1>>, <<1, 4>>, <<1, 2>>, <<5, 8>>, <<3, 4>>, <<1, 1>>}

\* The parameterized path the call is made for.
parameterization_key == <<"LIPV", "inner">>

\* The arguments _parameterize_paths passes on (construction.py:360-365): a
\* raw path of distinct points, the lengths of the edges between points that
\* follow one another on it (the first follows the last; all edges are equally
\* long, or the first is five times as long as the others), distinct markers on
\* the path and their increasing target values.
ParameterizationArguments(a) ==
  \E n \in 3..MaxPath, k \in 2..MaxMarkers :
    \E marker_inds \in {m \in [1..k -> 11..(10 + n)] : \A i, j \in 1..k : i < j => m[i] # m[j]} :
      \E marker_values \in {v \in [1..k -> marker_positions] :
                               \A i, j \in 1..k : i < j => less(v[i], v[j])} :
        \E lengths \in {[i \in 1..n |-> IF long /\ i = 1 THEN 5 ELSE 1] : long \in BOOLEAN} :
          a = [path |-> [i \in 1..n |-> 10 + i],
               distance |-> [e \in {{10 + i, 10 + (i % n) + 1} : i \in 1..n} |->
                               float(lengths[CHOOSE i \in 1..n :
                                               e = {10 + i, 10 + (i % n) + 1}], 1)],
               marker_inds |-> marker_inds,
               marker_values |-> marker_values]

\* _parameterize_paths at the call of the parameterization
\* (construction.py:360-366): an exception leaves the stage, a returned
\* ParameterizedPath is written to the Store as it is.
ParameterizePath ==
  /\ Executing("path_parameterization")
  /\ args # <<>>
  /\ result = <<>>
  /\ \E r \in {parameterize_path(args.distance, args.path, args.marker_inds, args.marker_values)} :
        /\ result' = r
        /\ IF r.raised
           THEN /\ status' = "failed"
                /\ error' = "algorithm"
                /\ UNCHANGED <<Store, todo, stage, queue, invocations, args>>
           ELSE /\ parameterized_path_data' =
                     set_dict_entry(Head(queue), parameterized_path_data,
                                    [type |-> "ParameterizedPath", written_by |-> invocations,
                                     inds |-> r.inds, relative_lengths |-> r.relative_lengths])
                /\ queue' = Tail(queue)
                /\ UNCHANGED <<marker_data, raw_path_data, uac_path_data,
                               submesh_boundary_data, submesh_data, uac_submesh_data,
                               todo, stage, status, error, invocations, args>>

InitParameterization ==
  /\ InitStore
  /\ todo = <<>>
  /\ stage = [id |-> "path_parameterization_existing", type |-> "path_parameterization"]
  /\ queue = <<parameterization_key>>
  /\ status = "running"
  /\ error = "none"
  /\ invocations = 1
  /\ ParameterizationArguments(args)
  /\ result = <<>>

NextParameterization == ParameterizePath

SpecParameterization == InitParameterization /\ [][NextParameterization]_vars

\* The zero-based index of a marker in the stored path.
MarkerIndex(m) == where(result.inds, args.marker_inds[m])

\* C9 (as stated): the relative lengths of a produced ParameterizedPath are
\* non-decreasing along the stored order and equal each marker's target value
\* exactly at the marker's index.
C9_MonotoneAndExactAtMarkers ==
  Returned =>
    /\ \A i \in 1..(Len(result.relative_lengths) - 1) :
         ~less(result.relative_lengths[i + 1], result.relative_lengths[i])
    /\ \A m \in DOMAIN args.marker_inds :
         result.relative_lengths[MarkerIndex(m) + 1] = args.marker_values[m]

\* ---------------------------------------------------------------------------
\* compute_uacs_polyline (construction_base.py:258-295)
\* ---------------------------------------------------------------------------

\* The tolerances of np.isclose, as 1 / rtol and 1 / atol.
rtol_inverse == 100000

atol_inverse == 100000000

\* np.isclose(a, b): |a - b| <= atol + rtol * |b|, evaluated on the fractions
\* without rounding (both sides multiplied by the denominators and by 1 / atol).
isclose(a, b) ==
  Abs(a[1] * b[2] - b[1] * a[2])
    <= (a[2] * b[2] + Abs(b[1]) * a[2] * (atol_inverse \div rtol_inverse)) \div atol_inverse

\* The value of 0 / 0.
nan == <<0, 0>>

\* np.where(np.isclose(relative_lengths, point))[0]: the zero-based indices.
where_isclose(relative_lengths, point) ==
  {j - 1 : j \in {i \in DOMAIN relative_lengths : isclose(relative_lengths[i], point)}}

\* np.min and np.max of a non-empty array of numbers.
np_min(numbers) ==
  numbers[CHOOSE i \in DOMAIN numbers : \A j \in DOMAIN numbers : ~less(numbers[j], numbers[i])]

np_max(numbers) ==
  numbers[CHOOSE i \in DOMAIN numbers : \A j \in DOMAIN numbers : ~less(numbers[i], numbers[j])]

\* The segments of compute_uacs_polyline from segment i on, appended to the
\* arrays collected so far.  An anchor position no relative length is close to
\* ends the loop with the IndexError of [0][0], an empty segment with the
\* ValueError of np.max.
RECURSIVE uac_segments(_, _, _, _, _)
uac_segments(i, path, segment_points, segment_uacs, collected) ==
  LET num_segments == Len(segment_points) - 1
  IN IF i > num_segments THEN collected
     ELSE LET starts == where_isclose(path.relative_lengths, segment_points[i])
              ends == where_isclose(path.relative_lengths, segment_points[i + 1])
              start_ind == Min(starts)
              end_ind == Min(ends)
              path_segment == SubSeq(path.relative_lengths, start_ind + 1, end_ind + 1)
              segment_inds == SubSeq(path.inds, start_ind + 1, end_ind + 1)
              start_uacs == segment_uacs[i]
              end_uacs == segment_uacs[i + 1]
              length_range == subtract(np_max(path_segment), np_min(path_segment))
              scaled_length == [j \in DOMAIN path_segment |->
                                  IF length_range[1] = 0 THEN nan
                                  ELSE divide(subtract(path_segment[j], np_min(path_segment)),
                                              length_range)]
              alpha == [j \in DOMAIN path_segment |->
                          IF scaled_length[j] = nan THEN nan
                          ELSE add(start_uacs[1],
                                   multiply(subtract(end_uacs[1], start_uacs[1]),
                                            scaled_length[j]))]
              beta == [j \in DOMAIN path_segment |->
                         IF scaled_length[j] = nan THEN nan
                         ELSE add(start_uacs[2],
                                  multiply(subtract(end_uacs[2], start_uacs[2]),
                                           scaled_length[j]))]
              kept == IF i < num_segments THEN Len(path_segment) - 1 ELSE Len(path_segment)
          IN IF starts = {} \/ ends = {} \/ start_ind > end_ind
             THEN [raised |-> TRUE, inds |-> <<>>, relative_lengths |-> <<>>,
                   alpha |-> <<>>, beta |-> <<>>]
             ELSE uac_segments(i + 1, path, segment_points, segment_uacs,
                               [raised |-> FALSE,
                                inds |-> collected.inds \o SubSeq(segment_inds, 1, kept),
                                relative_lengths |->
                                  collected.relative_lengths \o SubSeq(path_segment, 1, kept),
                                alpha |-> collected.alpha \o SubSeq(alpha, 1, kept),
                                beta |-> collected.beta \o SubSeq(beta, 1, kept)])

\* compute_uacs_polyline with its loop beginning at the second segment.
compute_uacs_polyline_from_second(path, segment_points, segment_uacs) ==
  uac_segments(2, path, segment_points, segment_uacs,
               [raised |-> FALSE, inds |-> <<>>, relative_lengths |-> <<>>,
                alpha |-> <<>>, beta |-> <<>>])

compute_uacs_polyline(path, segment_points, segment_uacs) ==
  uac_segments(1, path, segment_points, segment_uacs,
               [raised |-> FALSE, inds |-> <<>>, relative_lengths |-> <<>>,
                alpha |-> <<>>, beta |-> <<>>])

\* The largest number of anchors of a UAC path.
MaxAnchors == 3

\* The relative lengths a parameterized path holds and anchors are placed at.
anchor_positions == {<<0, 1>>, <<1, 4>>, <<1, 2>>, <<5, 8>>, <<1, 1>>}

\* The coordinates anchors are given; the anchors of a path have one beta.
anchor_coordinates == {<<alpha, beta>> : alpha \in {<<1, 16>>, <<9, 8>>}, beta \in {<<0, 1>>, <<1, 1>>}}

\* The UAC path the call is made for.
uac_key == <<"LIPV", "inner">>

\* The arguments _construct_uac_paths passes on (construction.py:383-385): a
\* ParameterizedPath with increasing relative lengths, open or closed by its
\* first point, and anchors with increasing relative positions.
UACArguments(a) ==
  \E n \in 3..MaxPath, k \in 2..MaxAnchors, closed \in BOOLEAN :
    \E relative_lengths \in {v \in [1..n -> anchor_positions] :
                               \A i, j \in 1..n : i < j => less(v[i], v[j])} :
      \E segment_points \in {v \in [1..k -> anchor_positions] :
                               \A i, j \in 1..k : i < j => less(v[i], v[j])} :
        \E segment_uacs \in {c \in [1..k -> anchor_coordinates] :
                               \A i, j \in 1..k : c[i][2] = c[j][2]} :
          a = [path |-> [inds |-> [i \in 1..n |-> IF closed /\ i = n THEN 11 ELSE 10 + i],
                         relative_lengths |-> relative_lengths],
               segment_points |-> segment_points,
               segment_uacs |-> segment_uacs]

\* _construct_uac_paths at the call of the coordinate assignment
\* (construction.py:383-389): an exception leaves the stage, a returned
\* UACPath is written to the Store as it is.
ConstructUACPath ==
  /\ Executing("uac_path_construction")
  /\ args # <<>>
  /\ result = <<>>
  /\ \E r \in {compute_uacs_polyline(args.path, args.segment_points, args.segment_uacs)} :
       /\ result' = r
       /\ IF r.raised
          THEN /\ status' = "failed"
               /\ error' = "algorithm"
               /\ UNCHANGED <<Store, todo, stage, queue, invocations, args>>
          ELSE /\ uac_path_data' =
                    set_dict_entry(Head(queue), uac_path_data,
                                   [type |-> "UACPath", written_by |-> invocations,
                                    inds |-> r.inds, relative_lengths |-> r.relative_lengths,
                                    alpha |-> r.alpha, beta |-> r.beta])
               /\ queue' = Tail(queue)
               /\ UNCHANGED <<marker_data, raw_path_data, parameterized_path_data,
                              submesh_boundary_data, submesh_data, uac_submesh_data,
                              todo, stage, status, error, invocations, args>>

InitUACPath ==
  /\ InitStore
  /\ todo = <<>>
  /\ stage = [id |-> "construct_uac_paths", type |-> "uac_path_construction"]
  /\ queue = <<uac_key>>
  /\ status = "running"
  /\ error = "none"
  /\ invocations = 1
  /\ UACArguments(args)
  /\ result = <<>>

NextUACPath == ConstructUACPath

SpecUACPath == InitUACPath /\ [][NextUACPath]_vars

\* C10 (as stated): in the returned UACPath every vertex whose relative length
\* is an anchor's relative position carries exactly that anchor's coordinate;
\* this covers the first entry, the junctions and the last entry.
C10_AnchorsExact ==
  Returned =>
    \A j \in DOMAIN result.relative_lengths :
      \A a \in DOMAIN args.segment_points :
        result.relative_lengths[j] = args.segment_points[a]
          => /\ result.alpha[j] = args.segment_uacs[a][1]
             /\ result.beta[j] = args.segment_uacs[a][2]

\* ---------------------------------------------------------------------------
\* _concatenate_submesh_boundaries (construction.py:425-458).  A segment is a
\* record of three parallel arrays inds, alpha, beta; the three lists of the
\* code are one list of segments.
\* ---------------------------------------------------------------------------

\* list.pop(i) leaves the list without its entry i (zero-based).
pop(list, i) == SubSeq(list, 1, i) \o SubSeq(list, i + 2, Len(list))

\* segment[::-1] on the three arrays
reversed(segment) ==
  [inds |-> Reverse(segment.inds), alpha |-> Reverse(segment.alpha),
   beta |-> Reverse(segment.beta)]

\* np.append keeping the first entry of the next segment.
appended_whole(unique, next_segment) ==
  [inds |-> unique.inds \o next_segment.inds,
   alpha |-> unique.alpha \o next_segment.alpha,
   beta |-> unique.beta \o next_segment.beta]

\* np.append(unique, next_segment[1:]) on the three arrays
appended(unique, next_segment) ==
  [inds |-> unique.inds \o Tail(next_segment.inds),
   alpha |-> unique.alpha \o Tail(next_segment.alpha),
   beta |-> unique.beta \o Tail(next_segment.beta)]

\* unique[:-1] on the three arrays
without_last(unique) ==
  [inds |-> SubSeq(unique.inds, 1, Len(unique.inds) - 1),
   alpha |-> SubSeq(unique.alpha, 1, Len(unique.alpha) - 1),
   beta |-> SubSeq(unique.beta, 1, Len(unique.beta) - 1)]

\* The search of the while loop taking the first remaining segment whether it
\* holds the current end point or not.
RECURSIVE stitch_unsearched(_, _)
stitch_unsearched(unique, boundary) ==
  IF boundary = <<>> THEN [raised |-> FALSE, unique |-> unique]
  ELSE LET current_end_point == unique.inds[Len(unique.inds)]
           popped == boundary[1]
           next_segment ==
             IF current_end_point = popped.inds[Len(popped.inds)]
             THEN reversed(popped) ELSE popped
       IN stitch_unsearched(appended(unique, next_segment), pop(boundary, 0))

\* The while loop: the first remaining segment that holds the current end
\* point is popped, reversed if the end point is its last entry, and appended
\* without its first entry; ValueError if no remaining segment holds it.
RECURSIVE stitch(_, _)
stitch(unique, boundary) ==
  IF boundary = <<>> THEN [raised |-> FALSE, unique |-> unique]
  ELSE LET current_end_point == unique.inds[Len(unique.inds)]
           holding == {i \in DOMAIN boundary : current_end_point \in Range(boundary[i].inds)}
       IN IF holding = {}
          THEN [raised |-> TRUE, unique |-> unique]
          ELSE LET i == Min(holding) - 1
                   popped == boundary[i + 1]
                   next_segment ==
                     IF current_end_point = popped.inds[Len(popped.inds)]
                     THEN reversed(popped) ELSE popped
               IN stitch(appended(unique, next_segment), pop(boundary, i))

\* _concatenate_submesh_boundaries of a non-empty list of non-empty segments
concatenate_submesh_boundaries(boundary) ==
  LET outcome == stitch(boundary[1], pop(boundary, 0))
      unique == outcome.unique
  IN IF outcome.raised
     THEN [raised |-> TRUE, inds |-> <<>>, alpha |-> <<>>, beta |-> <<>>]
     ELSE LET closed == IF unique.inds[1] = unique.inds[Len(unique.inds)]
                        THEN without_last(unique) ELSE unique
          IN [raised |-> FALSE, inds |-> closed.inds, alpha |-> closed.alpha,
              beta |-> closed.beta]

\* The longest loop and the largest number of segments a loop is cut into.
MaxLoop == 5

MaxSegments == 3

\* The vertex at position i of a closed loop of n vertices, positions counted
\* cyclically from 1.
loop_vertex(n, i) == 20 + ((i - 1) % n) + 1

\* The coordinates a UAC path holds for the vertex at position i of the loop.
loop_alpha(n, i) == float(((i - 1) % n) + 1, 8)

loop_beta(n, i) == float(n - ((i - 1) % n), 8)

\* The section of a UAC path that runs along the loop from position first to
\* position last, both included; first = last is the whole loop, closed by its
\* first vertex.  A UAC path carries its own coordinate for its last vertex:
\* last_alpha is the value the path holds there (the closing entry of a closed
\* path holds 1 where its first entry holds 0, and the last entry of any path
\* is the rounded start + (end - start) * 1.0, construction_base.py:274-275).
section(n, first, last, last_alpha) ==
  LET length == ((last - first - 1) % n) + 2
  IN [inds |-> [i \in 1..length |-> loop_vertex(n, first + i - 1)],
      alpha |-> [i \in 1..length |->
                   IF i = length THEN last_alpha ELSE loop_alpha(n, first + i - 1)],
      beta |-> [i \in 1..length |-> loop_beta(n, first + i - 1)]]

\* The sections a loop of n vertices falls into when it is cut at the
\* positions of the increasing list junctions; the first section holds
\* junction_alpha for its last vertex, every other one the coordinate the
\* next section starts with.
sections(n, junctions, junction_alpha) ==
  LET k == Len(junctions)
  IN [m \in 1..k |->
        LET last == junctions[(m % k) + 1]
        IN section(n, junctions[m], last,
                   IF m = 1 THEN junction_alpha ELSE loop_alpha(n, last))]

\* The submesh the boundary is stitched for.
submesh_key == <<"roof">>

\* The lists _extract_submesh_boundaries hands to the stitcher
\* (construction.py:399-420), one segment per boundary path of the submesh
\* in the order and orientation of the configuration: the sections of a closed
\* loop, or ("open") all of them but the last, each stored forward or
\* reversed, in any order.  segments keeps the sections in loop order.
StitchArguments(a) ==
  \E n \in 3..MaxLoop, k \in 1..MaxSegments, shape \in {"closed", "open"} :
    /\ k <= n
    /\ shape = "open" => k >= 2
    /\ \E junctions \in {v \in [1..k -> 1..n] : \A i, j \in 1..k : i < j => v[i] < v[j]} :
         \E junction_alpha \in {loop_alpha(n, junctions[(1 % k) + 1]), <<1, 1>>} :
           LET in_loop_order == sections(n, junctions, junction_alpha)
               kept == IF shape = "open" THEN k - 1 ELSE k
           IN \E order \in {p \in [1..kept -> 1..kept] : \A i, j \in 1..kept : i # j => p[i] # p[j]} :
                \E flipped \in [1..kept -> BOOLEAN] :
                  a = [n |-> n, shape |-> shape, segments |-> in_loop_order,
                       boundary |-> [i \in 1..kept |->
                                       IF flipped[i] THEN reversed(in_loop_order[order[i]])
                                       ELSE in_loop_order[order[i]]]]

\* _extract_submesh_boundaries from the call of the stitcher to the write of
\* its result (construction.py:418-422): the ValueError of the stitcher leaves
\* the stage, a returned loop is written to the Store as a UACPath.
ConcatenateSubmeshBoundaries ==
  /\ Executing("submesh_boundary_extraction")
  /\ args # <<>>
  /\ result = <<>>
  /\ \E r \in {concatenate_submesh_boundaries(args.boundary)} :
       /\ result' = r
       /\ IF r.raised
          THEN /\ status' = "failed"
               /\ error' = "algorithm"
               /\ UNCHANGED <<Store, todo, stage, queue, invocations, args>>
          ELSE /\ submesh_boundary_data' =
                    set_dict_entry(Head(queue), submesh_boundary_data,
                                   [type |-> "UACPath", written_by |-> invocations,
                                    inds |-> r.inds, alpha |-> r.alpha, beta |-> r.beta])
               /\ queue' = Tail(queue)
               /\ UNCHANGED <<marker_data, raw_path_data, parameterized_path_data,
                              uac_path_data, submesh_data, uac_submesh_data,
                              todo, stage, status, error, invocations, args>>

InitStitch ==
  /\ InitStore
  /\ todo = <<>>
  /\ stage = [id |-> "extract_submesh_boundaries", type |-> "submesh_boundary_extraction"]
  /\ queue = <<submesh_key>>
  /\ status = "running"
  /\ error = "none"
  /\ invocations = 1
  /\ StitchArguments(args)
  /\ result = <<>>

NextStitch == ConcatenateSubmeshBoundaries

SpecStitch == InitStitch /\ [][NextStitch]_vars

\* The entries of a returned loop: each vertex with the coordinates attached to it.
entries(path) == [i \in DOMAIN path.inds |-> <<path.inds[i], path.alpha[i], path.beta[i]>>]

\* Two sequences are the same cyclic sequence up to rotation and direction.
SameCycle(x, y) ==
  /\ Len(x) = Len(y)
  /\ \E shift \in 0..Len(x) :
       \/ np_roll(x, shift) = y
       \/ np_roll(Reverse(x), shift) = y

\* C11 (as stated): for segments that form a closed loop, the stitcher given
\* the list in any order, with any of the segments stored reversed, returns
\* the loop it returns for the list in loop order: the same cyclic vertex
\* sequence up to rotation and direction, each vertex with the same alpha and
\* beta.
C11_OrderIndependent ==
  (Returned /\ args.shape = "closed")
    => SameCycle(entries(result), entries(concatenate_submesh_boundaries(args.segments)))

\* C12: for segments that form a closed loop the returned loop holds every
\* vertex of the loop exactly once, the junction vertices included, whether
\* the segments are stored forward or reversed; the closing duplicate of the
\* first vertex is gone.
C12_EveryVertexOnce ==
  (Returned /\ args.shape = "closed")
    => /\ Len(result.inds) = args.n
       /\ Range(result.inds) = {loop_vertex(args.n, i) : i \in 1..args.n}
       /\ \A i, j \in DOMAIN result.inds : i # j => result.inds[i] # result.inds[j]

\* A closed loop of several segments, some stored forward and some reversed,
\* has been stitched.
C12_Witness ==
  /\ Returned
  /\ args.shape = "closed"
  /\ Len(args.boundary) = MaxSegments
  /\ \E i, j \in DOMAIN args.boundary :
       /\ args.boundary[i] \in Range(args.segments)
       /\ args.boundary[j] \notin Range(args.segments)
  /\ submesh_boundary_data[submesh_key].inds = result.inds

\* The stitching that starts with the accumulator inds comes to a point where
\* segments remain and none of them has the accumulator's last vertex as its
\* first or last vertex.
RECURSIVE Stuck(_, _)
Stuck(inds, remaining) ==
  /\ remaining # <<>>
  /\ LET current_end_point == inds[Len(inds)]
         sharing == {i \in DOMAIN remaining :
                       current_end_point \in {remaining[i][1], remaining[i][Len(remaining[i])]}}
     IN \/ sharing = {}
        \/ LET i == Min(sharing)
               next == IF current_end_point = remaining[i][Len(remaining[i])]
                       THEN Reverse(remaining[i]) ELSE remaining[i]
           IN Stuck(inds \o Tail(next), pop(remaining, i - 1))

\* The stitching of the list handed to the stitcher gets stuck.
StitchingStuck ==
  Stuck(args.boundary[1].inds, [i \in 1..(Len(args.boundary) - 1) |-> args.boundary[i + 1].inds])

\* C19: when the stitching comes to a point where no remaining segment shares
\* the accumulator's last vertex, the stitcher raises, the stage fails, and
\* no submesh boundary is written.
C19_StuckFails ==
  (result # <<>> /\ StitchingStuck)
    => /\ result.raised
       /\ status = "failed"
       /\ \A key \in DOMAIN submesh_boundary_data : submesh_boundary_data[key] = None

\* The stitcher has been called with a list whose stitching gets stuck.
C19_Witness == result # <<>> /\ StitchingStuck /\ status = "failed"

\* ---------------------------------------------------------------------------
\* extract_region_from_boundary and its flood fill
\* (construction_base.py:113-187).  Vertices and faces are numbered from 0 as
\* in the mesh arrays; a set of indices stands for a boolean mask.
\* ---------------------------------------------------------------------------

\* The largest number of patches of a mesh.
MaxPatches == 3

\* The faces of patch p of a mesh of count patches.  The mesh is a strip of
\* triangular patches with the corners 0..count + 1, patch p spanning the
\* corners p - 1, p, p + 1; each patch has three vertices of its own in its
\* interior and is made of the face between them and six faces around it.
patch_faces(count, p) ==
  LET A == p - 1
      B == p
      C == p + 1
      a == count + 2 + 3 * (p - 1)
      b == a + 1
      c == a + 2
  IN << <<A, B, b>>, <<A, b, a>>, <<B, C, c>>, <<B, c, b>>, <<C, A, a>>, <<C, a, c>>, <<a, b, c>> >>

\* mesh.faces.reshape(-1, 4)[:, 1:4] of the mesh of count patches, as a
\* function of the face index.
mesh_faces(count) == [f \in 0..(7 * count - 1) |-> patch_faces(count, (f \div 7) + 1)[(f % 7) + 1]]

\* np.intersect1d(current_cell, neighbor_cell)
shared_edge(faces, current_cell_ind, neighbor_cell_ind) ==
  Range(faces[current_cell_ind]) \cap Range(faces[neighbor_cell_ind])

\* tm_mesh.face_adjacency with its flipped copy (construction_base.py:128-130)
\* holds the ordered pairs of faces that share an edge.
face_adjacency_complete(faces, first, second) ==
  first # second /\ Cardinality(shared_edge(faces, first, second)) = 2

\* A set of numbers as an array, ascending or descending.
RECURSIVE sorted(_, _)
sorted(numbers, descending) ==
  IF numbers = {} THEN <<>>
  ELSE LET first == IF descending THEN Max(numbers) ELSE Min(numbers)
       IN <<first>> \o sorted(numbers \ {first}, descending)

\* neighbor_faces[start_ind:end_ind - 1] for a face: the neighbours in all but
\* the last row of the face's block of the sorted adjacency.
neighbors_but_last(faces, current_cell_ind, descending) ==
  LET block == sorted({neighbor_cell_ind \in DOMAIN faces :
                         face_adjacency_complete(faces, current_cell_ind, neighbor_cell_ind)},
                      descending)
  IN SubSeq(block, 1, Len(block) - 1)

\* neighbor_faces[start_ind:end_ind] for a face (construction_base.py:131-133,
\* 168-173): the rows of the adjacency that begin with the face, in the order
\* the argsort of the first column leaves them in.
neighbors(faces, current_cell_ind, descending) ==
  sorted({neighbor_cell_ind \in DOMAIN faces :
            face_adjacency_complete(faces, current_cell_ind, neighbor_cell_ind)},
         descending)

\* The boundary edges without the edge that closes the loop.
boundary_edges_open(boundary_inds) ==
  {{boundary_inds[i], boundary_inds[i + 1]} : i \in 1..(Len(boundary_inds) - 1)}

\* boundary_edges (construction_base.py:134-135): the pairs of consecutive
\* loop vertices and the pair of the last and the first.
boundary_edges(boundary_inds) ==
  {{boundary_inds[i], boundary_inds[i + 1]} : i \in 1..(Len(boundary_inds) - 1)}
    \cup {{boundary_inds[Len(boundary_inds)], boundary_inds[1]}}

\* The test of the inner loop (construction_base.py:177-182): both vertices
\* of the shared edge are in one boundary edge.
is_boundary(edge, edges) == \E boundary_edge \in edges : edge \subseteq boundary_edge

\* The bodies of the mesh without the boundary vertices
\* (construction_base.py:116-118): the faces none of whose vertices is on the
\* boundary, grouped into the sets that hang together by shared vertices, each
\* given as the set of its vertices.
RECURSIVE body_of(_, _)
body_of(points, cells) ==
  LET touched == UNION {Range(cell) : cell \in {c \in cells : Range(c) \cap points # {}}}
  IN IF touched \subseteq points THEN points ELSE body_of(points \cup touched, cells)

split_bodies(faces, boundary_inds) ==
  LET cells == {faces[f] : f \in {g \in DOMAIN faces : Range(faces[g]) \cap Range(boundary_inds) = {}}}
  IN {body_of(Range(cell), cells) : cell \in cells}

\* The boundary loop of the region made of the patches first_patch..last_patch:
\* its corners, every second one upwards and the others back down.
region_loop(first_patch, last_patch) ==
  LET corners == (first_patch - 1)..(last_patch + 1)
  IN sorted({v \in corners : (v - first_patch) % 2 = 1}, FALSE)
       \o sorted({v \in corners : (v - first_patch) % 2 = 0}, TRUE)

\* The regions a strip of count patches falls into when it is cut behind the
\* patches of cuts, in strip order, each as <<first patch, last patch>>.
regions(count, cuts) ==
  LET starts == sorted({1} \cup {c + 1 : c \in cuts}, FALSE)
  IN [i \in 1..Len(starts) |->
        <<starts[i], IF i < Len(starts) THEN starts[i + 1] - 1 ELSE count>>]

\* What _extract_submeshes reads for its keys (construction.py:467-482): a
\* mesh, and for each submesh the boundary loop of one region of a tiling of
\* the mesh and an outside path that begins at the nearest corner before or
\* behind the loop.
\* descending is the order the argsort leaves equal rows in.
RegionArguments(a) ==
  \E count \in 2..MaxPatches, descending \in BOOLEAN :
    \E cuts \in (SUBSET (1..(count - 1))) \ {{}} :
      LET tiles == regions(count, cuts)
      IN \E outside \in [DOMAIN tiles -> 0..(count + 1)] :
           /\ \A i \in DOMAIN tiles : outside[i] \in {tiles[i][1] - 2, tiles[i][2] + 2}
           /\ a = [count |-> count, descending |-> descending, tiles |-> tiles,
                   calls |-> [i \in DOMAIN tiles |->
                                [boundary_inds |-> region_loop(tiles[i][1], tiles[i][2]),
                                 outside_inds |-> <<outside[i]>>]]]

\* The call the stage makes for the key at the head of its queue.
current_call == args.calls[Len(args.calls) - Len(queue) + 1]

\* The seed and the arrays the flood fill is called with
\* (construction_base.py:123-143), and its local variables before the first
\* test of the while loop (construction_base.py:161-162).  The seed is the
\* first face at the first vertex of the inside body.
fill_frame(faces, boundary_inds, inside_mesh, descending) ==
  LET seed_point == Min(inside_mesh)
      seed_ind == Min({f \in DOMAIN faces : seed_point \in Range(faces[f])})
  IN [raised |-> FALSE,
      faces |-> faces,
      seed_ind |-> seed_ind,
      boundary_edges |-> boundary_edges(boundary_inds),
      neighbor_faces |-> values([f \in DOMAIN faces |-> neighbors(faces, f, descending)]),
      visited_cells |-> {},
      active_list |-> <<seed_ind>>]

\* extract_region_from_boundary up to the first test of the while loop
\* (construction_base.py:116-162).  The bodies come in an order the code does
\* not fix: the first is taken for the inside unless it holds the first
\* outside vertex, the second otherwise; a body that is not there is an
\* IndexError.
ExtractRegionFromBoundary ==
  /\ Executing("submesh_extraction")
  /\ args # <<>>
  /\ result = <<>>
  /\ \E faces \in {values(mesh_faces(args.count))} :
       \E submeshes \in {split_bodies(faces, current_call.boundary_inds)} :
         \E first \in submeshes \cup {{}} :
           \E second \in (submeshes \ {first}) \cup {{}} :
             /\ first = {} <=> submeshes = {}
             /\ second = {} <=> submeshes \subseteq {first}
             /\ \E inside_mesh \in {IF current_call.outside_inds[1] \notin first
                                     THEN first ELSE second} :
                  IF inside_mesh = {}
                  THEN /\ result' = [raised |-> TRUE]
                       /\ status' = "failed"
                       /\ error' = "algorithm"
                       /\ UNCHANGED <<Store, todo, stage, queue, invocations, args>>
                  ELSE /\ result' = fill_frame(faces, current_call.boundary_inds,
                                               inside_mesh, args.descending)
                       /\ UNCHANGED <<Store, control, args>>

\* The faces one pass of the for loop appends (construction_base.py:174-185):
\* the neighbours, in their order, that are not across a boundary edge and not
\* visited.
appended_neighbors(frame, current_cell_ind, visited_cells) ==
  SelectSeq(frame.neighbor_faces[current_cell_ind],
            LAMBDA neighbor_cell_ind :
              /\ ~is_boundary(shared_edge(frame.faces, current_cell_ind, neighbor_cell_ind),
                              frame.boundary_edges)
              /\ neighbor_cell_ind \notin visited_cells)

\* One pass of the while loop of _extract_region_from_boundary
\* (construction_base.py:164-185).
FloodFill ==
  /\ status = "running"
  /\ result # <<>>
  /\ result.active_list # <<>>
  /\ LET current_cell_ind == result.active_list[Len(result.active_list)]
         visited_cells == result.visited_cells \cup {current_cell_ind}
     IN result' = [result EXCEPT
                     !.visited_cells = visited_cells,
                     !.active_list =
                        SubSeq(result.active_list, 1, Len(result.active_list) - 1)
                          \o appended_neighbors(result, current_cell_ind, visited_cells)]
  /\ UNCHANGED <<Store, control, args>>

\* The while loop is left: the visited faces are returned, made a Submesh
\* (construction_base.py:187, 145-149) and written to the Store
\* (construction.py:481-484).
ExtractSubmesh ==
  /\ status = "running"
  /\ result # <<>>
  /\ result.active_list = <<>>
  /\ submesh_data' =
       set_dict_entry(Head(queue), submesh_data,
                      [type |-> "Submesh", written_by |-> invocations,
                       cell_inds |-> sorted(result.visited_cells, FALSE),
                       inds |-> sorted(UNION {Range(result.faces[f]) :
                                                f \in result.visited_cells}, FALSE)])
  /\ queue' = Tail(queue)
  /\ result' = <<>>
  /\ UNCHANGED <<marker_data, raw_path_data, parameterized_path_data, uac_path_data,
                 submesh_boundary_data, uac_submesh_data,
                 todo, stage, status, error, invocations, args>>

InitRegion ==
  /\ InitStore
  /\ todo = <<>>
  /\ stage = [id |-> "extract_submeshes", type |-> "submesh_extraction"]
  /\ status = "running"
  /\ error = "none"
  /\ invocations = 1
  /\ RegionArguments(args)
  /\ queue = SubSeq(submesh_configs_keys, 1, Len(args.calls))
  /\ result = <<>>

NextRegion == ExtractRegionFromBoundary \/ FloodFill \/ ExtractSubmesh

SpecRegion == InitRegion /\ [][NextRegion]_vars

\* The scheduler of the flood fill: a loop that can make a pass makes it.
FairSpecRegion == SpecRegion /\ WF_vars(FloodFill)

\* The edges of a closed loop: every two consecutive vertices, and the last
\* with the first.
LoopEdges(boundary_inds) ==
  {{boundary_inds[i], boundary_inds[(i % Len(boundary_inds)) + 1]} : i \in DOMAIN boundary_inds}

\* The faces of the mesh that have the edge.
FacesAt(faces, edge) == {f \in DOMAIN faces : edge \subseteq Range(faces[f])}

\* The flood fill is under way, at the test of its while loop.
Filling == result # <<>> /\ ~result.raised

\* The key sequences the stage has written a Submesh for, by their place in
\* the stage's list.
Extracted == {i \in DOMAIN args.calls : submesh_data[submesh_configs_keys[i]].type = "Submesh"}

\* C13: no pass of the flood fill appends a neighbour that lies across an
\* edge of the boundary loop (the edge from the last vertex to the first
\* included), and of the faces at an edge of the loop at most one is in the
\* face set written for the loop.
C13_NeverAcrossBoundary ==
  [][/\ (Filling /\ result' # <<>>) =>
          LET current_cell_ind == result.active_list[Len(result.active_list)]
          IN \A j \in Len(result.active_list)..Len(result'.active_list) :
               shared_edge(result.faces, current_cell_ind, result'.active_list[j])
                 \notin LoopEdges(current_call.boundary_inds)
     /\ \A i \in Extracted' :
          \A edge \in LoopEdges(args.calls[i].boundary_inds) :
            Cardinality(FacesAt(mesh_faces(args.count), edge)
                          \cap Range(submesh_data'[submesh_configs_keys[i]].cell_inds)) <= 1
    ]_vars

\* A loop with faces on both sides of one of its edges has been filled,
\* through passes that appended neighbours.
C13_Witness ==
  \E i \in Extracted :
    /\ \E edge \in LoopEdges(args.calls[i].boundary_inds) :
         Cardinality(FacesAt(mesh_faces(args.count), edge)) = 2
    /\ Len(submesh_data[submesh_configs_keys[i]].cell_inds) >= 7

\* C14 (as stated): when the stage has extracted the submeshes of all the
\* loops of a tiling, each with an outside vertex off its region, every face
\* of the mesh is in the face set of exactly one of them.
C14_Partition ==
  (args # <<>> /\ queue = <<>>) =>
    \A f \in DOMAIN mesh_faces(args.count) :
      Cardinality({i \in DOMAIN args.calls :
                     f \in Range(submesh_data[submesh_configs_keys[i]].cell_inds)}) = 1

\* The faces that can be reached from the seed through pairs of adjacent
\* faces whose shared edge is no edge of the loop.
RECURSIVE ReachableFrom(_, _, _)
ReachableFrom(reached, faces, loop_edges) ==
  LET more == {f \in DOMAIN faces :
                 \E g \in reached :
                   /\ Cardinality(shared_edge(faces, f, g)) = 2
                   /\ shared_edge(faces, f, g) \notin loop_edges}
  IN IF more \subseteq reached THEN reached
     ELSE ReachableFrom(reached \cup more, faces, loop_edges)

\* C15: every flood fill comes to the end of its while loop, and then the
\* visited faces are exactly the faces reachable from the seed without
\* crossing an edge of the loop.
C15_TerminatesWithReachable ==
  /\ Filling ~> (Filling /\ result.active_list = <<>>)
  /\ [](Filling /\ result.active_list = <<>> =>
          result.visited_cells =
            ReachableFrom({result.seed_ind}, result.faces, LoopEdges(current_call.boundary_inds)))

\* A flood fill is under way with a face twice on its frontier that is not
\* yet visited.
C15_Witness ==
  /\ Filling
  /\ \E i, j \in DOMAIN result.active_list :
       /\ i # j
       /\ result.active_list[i] = result.active_list[j]
       /\ result.active_list[i] \notin result.visited_cells

\* ---------------------------------------------------------------------------
\* _extract_markers on one marker (construction.py:222-271)
\* ---------------------------------------------------------------------------

\* containing_path[position] with a wrapped index: no position is out of bounds.
getitem_wrapped(array, position) ==
  IF Len(array) = 0 THEN [raised |-> TRUE]
  ELSE [raised |-> FALSE, value |-> array[(position % Len(array)) + 1]]

\* containing_path[position] of a numpy array: a negative position counts from
\* the end, a position outside the array is an IndexError.
getitem(array, position) ==
  LET wrapped == IF position < 0 THEN position + Len(array) ELSE position
  IN IF wrapped < 0 \/ wrapped >= Len(array)
     THEN [raised |-> TRUE]
     ELSE [raised |-> FALSE, value |-> array[wrapped + 1]]

\* np.where(relative_lengths > position)[0]
where_greater(relative_lengths, position) ==
  SelectSeq([i \in DOMAIN relative_lengths |-> i - 1],
            LAMBDA i : less(position, relative_lengths[i + 1]))

\* np.where(relative_lengths >= position)[0]: the zero-based indices of the
\* entries that are not less than the position, ascending.
where_greater_equal(relative_lengths, position) ==
  SelectSeq([i \in DOMAIN relative_lengths |-> i - 1],
            LAMBDA i : ~less(relative_lengths[i + 1], position))

\* The marker of each mode the stage is run for, and the path its
\* configuration names.
marker_key(position_type) ==
  IF position_type = "relative" THEN <<"anchor", "LSPV_MV">>
  ELSE <<"LIPV", "inner", "anterior_posterior">>

\* The largest position of an index marker.
MaxPosition == 5

\* What the stage finds for the marker (construction.py:225, 230, 246): the
\* marker's configuration with any position, and in the Store the containing
\* path, a raw path of up to MaxPath vertices or a parameterized path with any
\* relative lengths, or nothing yet.
MarkerArguments(a) ==
  \E position_type \in {"index", "relative", "absolute"}, n \in 0..MaxPath :
    \E constructed \in BOOLEAN :
      \E relative_lengths \in [1..n -> marker_positions] :
        \E position \in IF position_type = "relative" THEN marker_positions \cup {<<9, 8>>}
                        ELSE (-MaxPosition)..MaxPosition :
          /\ position_type = "index" => relative_lengths = [i \in 1..n |-> <<0, 1>>]
          /\ position_type = "absolute" => n = 0 /\ position = 0 /\ constructed
          /\ ~constructed => n = 0
          /\ a = [marker_config |-> [path |-> marker_configs(marker_key(position_type)).path,
                                     position_type |-> position_type,
                                     position |-> position],
                  constructed |-> constructed,
                  inds |-> [i \in 1..n |-> 30 + i],
                  relative_lengths |-> relative_lengths]

\* One pass of the loop of _extract_markers (construction.py:224-271).
ExtractMarker ==
  /\ Executing("marker_extraction")
  /\ args # <<>>
  /\ result = <<>>
  /\ LET marker_config == args.marker_config
         written(marker_ind) ==
           /\ result' = [raised |-> FALSE, marker_ind |-> marker_ind]
           /\ marker_data' = set_dict_entry(Head(queue), marker_data,
                                            [type |-> "int", written_by |-> invocations,
                                             value |-> marker_ind])
           /\ queue' = Tail(queue)
           /\ UNCHANGED <<raw_path_data, parameterized_path_data, uac_path_data,
                          submesh_boundary_data, submesh_data, uac_submesh_data,
                          todo, stage, status, error, invocations, args>>
         raised(kind, class) ==
           /\ result' = [raised |-> TRUE, kind |-> kind]
           /\ status' = "failed"
           /\ error' = class
           /\ UNCHANGED <<Store, todo, stage, queue, invocations, args>>
     IN IF marker_config.position_type = "index"
        THEN LET containing_path == get_dict_entry(marker_config.path, raw_path_data)
             IN IF ~isinstance(containing_path, "ndarray")
                THEN raised("ValueError", "missing")
                ELSE LET marker_ind == getitem(containing_path.inds, marker_config.position)
                     IN IF marker_ind.raised THEN raised("IndexError", "algorithm")
                        ELSE written(marker_ind.value)
        ELSE IF marker_config.position_type = "relative"
        THEN LET containing_path == get_dict_entry(marker_config.path, parameterized_path_data)
             IN IF ~isinstance(containing_path, "ParameterizedPath")
                THEN raised("TypeError", "missing")
                ELSE LET relative_marker_ind ==
                           getitem(where_greater_equal(containing_path.relative_lengths,
                                                       marker_config.position), 0)
                     IN IF relative_marker_ind.raised THEN raised("ValueError", "algorithm")
                        ELSE written(containing_path.inds[relative_marker_ind.value + 1])
        ELSE raised("ValueError", "algorithm")

InitMarker ==
  /\ MarkerArguments(args)
  /\ marker_data = create_empty_dict_from_keys(marker_configs_keys)
  /\ raw_path_data =
       IF args.constructed /\ args.marker_config.position_type = "index"
       THEN set_dict_entry(args.marker_config.path,
                           create_empty_dict_from_keys(path_configs_keys),
                           [type |-> "ndarray", written_by |-> 1, inds |-> args.inds])
       ELSE create_empty_dict_from_keys(path_configs_keys)
  /\ parameterized_path_data =
       IF args.constructed /\ args.marker_config.position_type = "relative"
       THEN set_dict_entry(args.marker_config.path,
                           create_empty_dict_from_keys(parameterization_configs_keys),
                           [type |-> "ParameterizedPath", written_by |-> 1,
                            inds |-> args.inds, relative_lengths |-> args.relative_lengths])
       ELSE create_empty_dict_from_keys(parameterization_configs_keys)
  /\ uac_path_data = create_empty_dict_from_keys(uac_configs_keys)
  /\ submesh_boundary_data = create_empty_dict_from_keys(submesh_configs_keys)
  /\ submesh_data = create_empty_dict_from_keys(submesh_configs_keys)
  /\ uac_submesh_data = create_empty_dict_from_keys(submesh_configs_keys)
  /\ todo = <<>>
  /\ stage = [id |-> "extract_markers", type |-> "marker_extraction"]
  /\ queue = <<marker_key(args.marker_config.position_type)>>
  /\ status = "running"
  /\ error = "none"
  /\ invocations = 2
  /\ result = <<>>

NextMarker == ExtractMarker

SpecMarker == InitMarker /\ [][NextMarker]_vars

\* The marker the stage was run for has been left unwritten.
MarkerNotWritten == \A key \in DOMAIN marker_data : marker_data[key] = None

\* The stage has run on a constructed containing path in the mode.
Resolved(position_type) ==
  /\ result # <<>>
  /\ args.constructed
  /\ args.marker_config.position_type = position_type

\* C16: on a raw path of n vertices the index mode writes the vertex at
\* position p for 0 <= p < n and the vertex at position n + p for -n <= p < 0;
\* for every other p it fails with an IndexError and writes no marker.
C16_IndexMode ==
  Resolved("index") =>
    LET n == Len(args.inds)
        p == args.marker_config.position
    IN /\ (0 <= p /\ p < n) =>
            /\ ~result.raised
            /\ marker_data[marker_key("index")].value = args.inds[p + 1]
       /\ (-n <= p /\ p < 0) =>
            /\ ~result.raised
            /\ marker_data[marker_key("index")].value = args.inds[n + p + 1]
       /\ (p >= n \/ p < -n) =>
            /\ result.raised
            /\ result.kind = "IndexError"
            /\ status = "failed"
            /\ MarkerNotWritten

\* The index mode has written the vertex at a negative position.
C16_Witness ==
  /\ Resolved("index")
  /\ args.marker_config.position < 0
  /\ ~result.raised
  /\ marker_data[marker_key("index")].value = result.marker_ind

\* C17: on a parameterized path the relative mode writes the vertex at the
\* smallest index whose relative length is at least the target; when no
\* relative length is, it fails with an error and writes no marker.
C17_RelativeMode ==
  Resolved("relative") =>
    LET t == args.marker_config.position
        at_least == {i \in DOMAIN args.relative_lengths :
                       args.relative_lengths[i][1] * t[2] >= t[1] * args.relative_lengths[i][2]}
    IN IF at_least # {}
       THEN /\ ~result.raised
            /\ marker_data[marker_key("relative")].value = args.inds[Min(at_least)]
       ELSE /\ result.raised
            /\ status = "failed"
            /\ MarkerNotWritten

\* The relative mode has written a vertex that is not the first of the path
\* and is followed by a vertex of smaller relative length.
C17_Witness ==
  /\ Resolved("relative")
  /\ ~result.raised
  /\ \E i, j \in DOMAIN args.inds :
       /\ 1 < i
       /\ i < j
       /\ args.inds[i] = marker_data[marker_key("relative")].value
       /\ less(args.relative_lengths[j], args.relative_lengths[i])

\* ---------------------------------------------------------------------------
\* get_feature_boundary (construction_base.py:38-76) in _extract_features
\* (construction.py:206-219)
\* ---------------------------------------------------------------------------

\* The number of patches of the mesh a feature is tagged on, and the largest
\* number of faces that carry the feature's tag.
FeaturePatches == 2

MaxFeatureFaces == 3

\* tm_mesh.edges: the three edges of every face, face by face, each as the
\* pair of its vertices.
mesh_edges(faces) ==
  [e \in 0..(3 * Cardinality(DOMAIN faces) - 1) |->
     <<faces[e \div 3][(e % 3) + 1], faces[e \div 3][((e + 1) % 3) + 1]>>]

\* extract_feature_edges(boundary_edges=True) of the cells, as original point
\* ids: the vertices of the edges that belong to exactly one of the cells.
boundary_edge_points(faces, cells) ==
  UNION {edge \in {{v, w} : v, w \in UNION {Range(faces[f]) : f \in cells}} :
           /\ Cardinality(edge) = 2
           /\ Cardinality({f \in cells : edge \subseteq Range(faces[f])}) = 1}

\* feature_boundary_inds of get_feature_boundary (construction_base.py:41-62):
\* the boundary vertices of the tagged faces that are, or are not, on the
\* boundary of the whole mesh, as a sorted array.
feature_boundary_inds(faces, tagged, coincides_with_geometry_boundary) ==
  LET feature == boundary_edge_points(faces, tagged)
      geometry == boundary_edge_points(faces, DOMAIN faces)
  IN sorted(IF coincides_with_geometry_boundary
            THEN feature \cap geometry ELSE feature \ geometry, FALSE)

\* local_edges (construction_base.py:71-73): the mesh edges with both vertices
\* among the path indices, as pairs of positions in path_indices.
local_edges(faces, path_indices) ==
  LET edges == mesh_edges(faces)
  IN {<<where(path_indices, edges[e][1]), where(path_indices, edges[e][2])>> :
        e \in {i \in DOMAIN edges : Range(edges[i]) \subseteq Range(path_indices)}}

\* graph.neighbors(vid) of the undirected graph of the edges
graph_neighbors(edges, vid) ==
  {e[2] : e \in {d \in edges : d[1] = vid}} \cup {e[1] : e \in {d \in edges : d[2] = vid}}

\* The loop of graph.dfs: the vertex on top of the stack hands out its
\* neighbours from the end of its list; one that is not added yet is added
\* and put on the stack, and a vertex with no neighbour left is taken off.
RECURSIVE dfs(_, _, _)
dfs(edges, stack, vids) ==
  IF stack = <<>> THEN vids
  ELSE LET open == graph_neighbors(edges, stack[Len(stack)]) \ Range(vids)
       IN IF open = {} THEN dfs(edges, SubSeq(stack, 1, Len(stack) - 1), vids)
          ELSE dfs(edges, Append(stack, Max(open)), Append(vids, Max(open)))

\* _construct_ordered_path_from_indices (construction_base.py:69-76).  The
\* graph has the vertices 0 up to the largest position in an edge; without an
\* edge it has none, and the search from vertex 0 is an error.
construct_ordered_path_from_indices(faces, path_indices) ==
  LET edges == local_edges(faces, path_indices)
  IN IF edges = {} THEN [raised |-> TRUE, inds |-> <<>>]
     ELSE LET ordered_path == dfs(edges, <<0>>, <<0>>)
          IN [raised |-> FALSE,
              inds |-> [i \in DOMAIN ordered_path |-> path_indices[ordered_path[i] + 1]]]

\* The boundary path of each kind the stage is run for.
feature_key(coincides_with_mesh_boundary) ==
  IF coincides_with_mesh_boundary THEN <<"LIPV", "outer">> ELSE <<"LIPV", "inner">>

\* The point ids of a mesh are in no particular order: the vertices of the
\* patches as they are built, or with the ids of the first two exchanged.
point_ids(exchanged) ==
  [v \in 0..(4 * FeaturePatches + 1) |->
     IF exchanged /\ v = 0 THEN 1 ELSE IF exchanged /\ v = 1 THEN 0 ELSE v]

\* The faces of the mesh with its points under the given ids.
faces_with_point_ids(faces, ids) ==
  [f \in DOMAIN faces |-> [corner \in 1..3 |-> ids[faces[f][corner]]]]

\* What get_feature_boundary is called with (construction.py:216-218): the
\* mesh, whose faces with the feature's tag are any of its faces up to
\* MaxFeatureFaces, and whether the boundary is to lie on the mesh boundary.
FeatureArguments(a) ==
  \E tagged \in SUBSET (0..(7 * FeaturePatches - 1)), is_mesh_boundary \in BOOLEAN,
     exchanged \in BOOLEAN :
    /\ tagged # {}
    /\ Cardinality(tagged) <= MaxFeatureFaces
    /\ a = [faces |-> faces_with_point_ids(mesh_faces(FeaturePatches), point_ids(exchanged)),
            tagged |-> tagged, is_mesh_boundary |-> is_mesh_boundary]

\* _extract_features on a boundary path (construction.py:208-219): an
\* exception of get_feature_boundary leaves the stage, the returned path is
\* written to the Store.
ExtractFeature ==
  /\ Executing("feature_extraction")
  /\ args # <<>>
  /\ result = <<>>
  /\ \E r \in {construct_ordered_path_from_indices(
                 args.faces,
                 feature_boundary_inds(args.faces, args.tagged, args.is_mesh_boundary))} :
       /\ result' = r
       /\ IF r.raised
          THEN /\ status' = "failed"
               /\ error' = "algorithm"
               /\ UNCHANGED <<Store, todo, stage, queue, invocations, args>>
          ELSE /\ raw_path_data' =
                    set_dict_entry(Head(queue), raw_path_data,
                                   [type |-> "ndarray", written_by |-> invocations,
                                    inds |-> r.inds])
               /\ queue' = Tail(queue)
               /\ UNCHANGED <<marker_data, parameterized_path_data, uac_path_data,
                              submesh_boundary_data, submesh_data, uac_submesh_data,
                              todo, stage, status, error, invocations, args>>

InitFeature ==
  /\ InitStore
  /\ FeatureArguments(args)
  /\ todo = <<>>
  /\ stage = [id |-> "extract_features", type |-> "feature_extraction"]
  /\ queue = <<feature_key(args.is_mesh_boundary)>>
  /\ status = "running"
  /\ error = "none"
  /\ invocations = 1
  /\ result = <<>>

NextFeature == ExtractFeature

SpecFeature == InitFeature /\ [][NextFeature]_vars

\* The mesh-edge graph on the resolved boundary vertices: the pairs of them
\* joined by an edge of a face.
InducedEdges(faces, vertices) ==
  {edge \in {{v, w} : v, w \in vertices} :
     Cardinality(edge) = 2 /\ \E f \in DOMAIN faces : edge \subseteq Range(faces[f])}

\* The vertices that can be reached from the vertices reached along the edges.
RECURSIVE Component(_, _)
Component(reached, edges) ==
  LET more == UNION {edge \in edges : edge \cap reached # {}}
  IN IF more \subseteq reached THEN reached ELSE Component(reached \cup more, edges)

\* The graph is one simple path or one simple cycle: it hangs together and no
\* vertex has more than two neighbours.
SimplePathOrCycle(vertices, edges) ==
  /\ vertices # {}
  /\ Component({Min(vertices)}, edges) = vertices
  /\ \A v \in vertices : Cardinality({edge \in edges : v \in edge}) <= 2

\* The boundary vertices get_feature_boundary resolved in the call.
ResolvedBoundary ==
  Range(feature_boundary_inds(args.faces, args.tagged, args.is_mesh_boundary))

\* C18 (as stated): when the mesh-edge graph on the resolved boundary vertices
\* is not one simple path or cycle, get_feature_boundary raises, the stage
\* fails, and no raw path is written.
C18_MalformedFails ==
  (result # <<>> /\ ~SimplePathOrCycle(ResolvedBoundary,
                                       InducedEdges(args.faces, ResolvedBoundary)))
    => /\ result.raised
       /\ status = "failed"
       /\ \A key \in DOMAIN raw_path_data : raw_path_data[key] = None

\* ---------------------------------------------------------------------------
\* _compute_uacs_on_submeshes on one submesh (construction.py:487-525)
\* ---------------------------------------------------------------------------

\* The positions of the value in the array, counted from 1.
where_equal_from_one(array, value) ==
  SelectSeq([i \in DOMAIN array |-> i], LAMBDA i : array[i] = value)

\* np.where(array == value)[0]: the zero-based positions of the value,
\* ascending.
where_equal(array, value) ==
  SelectSeq([i \in DOMAIN array |-> i - 1], LAMBDA i : array[i + 1] = value)

\* boundary_inds (construction.py:505-507): for every boundary vertex, in
\* order, the first position of the vertex in the submesh's vertices; an
\* IndexError if one of them is not there.
local_boundary_inds(submesh_inds, submesh_boundary_inds) ==
  LET found == [i \in DOMAIN submesh_boundary_inds |->
                  getitem(where_equal(submesh_inds, submesh_boundary_inds[i]), 0)]
  IN IF \E i \in DOMAIN found : found[i].raised
     THEN [raised |-> TRUE, boundary_inds |-> <<>>]
     ELSE [raised |-> FALSE, boundary_inds |-> [i \in DOMAIN found |-> found[i].value]]

\* The coordinates a harmonic map has at the vertices off the boundary: one
\* of two pairs, the same at all of them.
interior_coordinates == {<<<<1, 4>>, <<1, 2>>>>, <<<<1, 2>>, <<1, 4>>>>}

\* igl.harmonic(V, F, b, bc, k=1) (construction.py:511-517): a map on the
\* vertices that takes the row of bc at every vertex of b (for a vertex named
\* twice, the last row) and the solution of the Laplace equation, here
\* interior, at the others.
harmonic(b, bc, interior) ==
  [v \in DOMAIN interior |->
     IF \E i \in DOMAIN b : b[i] = v - 1
     THEN bc[Max({i \in DOMAIN b : b[i] = v - 1})]
     ELSE interior[v]]

\* What the stage finds in the Store for the submesh (construction.py:493-500):
\* the Submesh of one region of the mesh and, as submesh boundary, the loop
\* of a region, the same or another, from any of its vertices on and in
\* either direction, with its coordinates.
HarmonicArguments(a) ==
  \E count \in 2..MaxPatches, reverse \in BOOLEAN :
    \E first \in 1..count, boundary_first \in 1..count :
      \E last \in first..count, boundary_last \in boundary_first..count :
        LET closed == region_loop(boundary_first, boundary_last)
            faces == mesh_faces(count)
            cell_inds == (7 * (first - 1))..(7 * last - 1)
        IN \E shift \in 0..(Len(closed) - 1) :
             LET turned == np_roll(IF reverse THEN Reverse(closed) ELSE closed, shift)
             IN a = [submesh |->
                       [inds |-> sorted(UNION {Range(faces[f]) : f \in cell_inds}, FALSE),
                        cell_inds |-> sorted(cell_inds, FALSE)],
                     submesh_boundary |->
                       [inds |-> turned,
                        alpha |-> [i \in DOMAIN turned |-> float(turned[i] + 1, 8)],
                        beta |-> [i \in DOMAIN turned |-> float(i, 8)]]]

\* One pass of the loop of _compute_uacs_on_submeshes (construction.py:489-525).
ComputeUACsOnSubmesh ==
  /\ Executing("harmonic_extension")
  /\ args # <<>>
  /\ result = <<>>
  /\ LET submesh_boundary == get_dict_entry(Head(queue), submesh_boundary_data)
         submesh == get_dict_entry(Head(queue), submesh_data)
     IN \E located \in {local_boundary_inds(submesh.inds, submesh_boundary.inds)} :
          /\ result' = located
          /\ IF located.raised
             THEN /\ status' = "failed"
                  /\ error' = "algorithm"
                  /\ UNCHANGED <<Store, todo, stage, queue, invocations, args>>
             ELSE \E interior \in {[v \in DOMAIN submesh.inds |-> inside] :
                                     inside \in interior_coordinates} :
                    \E harmonic_map \in
                         {harmonic(located.boundary_inds,
                                   [i \in DOMAIN submesh_boundary.inds |->
                                      <<submesh_boundary.alpha[i], submesh_boundary.beta[i]>>],
                                   interior)} :
                      /\ uac_submesh_data' =
                           set_dict_entry(Head(queue), uac_submesh_data,
                                          [type |-> "UACSubmesh", written_by |-> invocations,
                                           inds |-> submesh.inds,
                                           cell_inds |-> submesh.cell_inds,
                                           alpha |-> [v \in DOMAIN harmonic_map |->
                                                        harmonic_map[v][1]],
                                           beta |-> [v \in DOMAIN harmonic_map |->
                                                       harmonic_map[v][2]]])
                      /\ queue' = Tail(queue)
                      /\ UNCHANGED <<marker_data, raw_path_data, parameterized_path_data,
                                     uac_path_data, submesh_boundary_data, submesh_data,
                                     todo, stage, status, error, invocations, args>>

InitHarmonic ==
  /\ HarmonicArguments(args)
  /\ marker_data = create_empty_dict_from_keys(marker_configs_keys)
  /\ raw_path_data = create_empty_dict_from_keys(path_configs_keys)
  /\ parameterized_path_data = create_empty_dict_from_keys(parameterization_configs_keys)
  /\ uac_path_data = create_empty_dict_from_keys(uac_configs_keys)
  /\ submesh_boundary_data =
       set_dict_entry(submesh_key, create_empty_dict_from_keys(submesh_configs_keys),
                      [type |-> "UACPath", written_by |-> 1,
                       inds |-> args.submesh_boundary.inds,
                       alpha |-> args.submesh_boundary.alpha,
                       beta |-> args.submesh_boundary.beta])
  /\ submesh_data =
       set_dict_entry(submesh_key, create_empty_dict_from_keys(submesh_configs_keys),
                      [type |-> "Submesh", written_by |-> 2,
                       inds |-> args.submesh.inds, cell_inds |-> args.submesh.cell_inds])
  /\ uac_submesh_data = create_empty_dict_from_keys(submesh_configs_keys)
  /\ todo = <<>>
  /\ stage = [id |-> "compute_uacs_on_submeshes", type |-> "harmonic_extension"]
  /\ queue = <<submesh_key>>
  /\ status = "running"
  /\ error = "none"
  /\ invocations = 3
  /\ result = <<>>

NextHarmonic == ComputeUACsOnSubmesh

SpecHarmonic == InitHarmonic /\ [][NextHarmonic]_vars

\* C20: the stage maps every vertex of the submesh boundary, in boundary
\* order, to a position of the submesh's vertex list that holds this vertex,
\* and the coordinate submesh carries the vertex's alpha and beta at that
\* position; when a boundary vertex is not among the submesh's vertices the
\* stage fails and writes no coordinate submesh.
C20_LocalBoundaryIndices ==
  result # <<>> =>
    IF Range(args.submesh_boundary.inds) \subseteq Range(args.submesh.inds)
    THEN /\ ~result.raised
         /\ Len(result.boundary_inds) = Len(args.submesh_boundary.inds)
         /\ \A i \in DOMAIN args.submesh_boundary.inds :
              /\ result.boundary_inds[i] \in 0..(Len(args.submesh.inds) - 1)
              /\ args.submesh.inds[result.boundary_inds[i] + 1] = args.submesh_boundary.inds[i]
              /\ uac_submesh_data[submesh_key].alpha[result.boundary_inds[i] + 1]
                   = args.submesh_boundary.alpha[i]
              /\ uac_submesh_data[submesh_key].beta[result.boundary_inds[i] + 1]
                   = args.submesh_boundary.beta[i]
    ELSE /\ result.raised
         /\ status = "failed"
         /\ \A key \in DOMAIN uac_submesh_data : uac_submesh_data[key] = None

\* The coordinates of a submesh have been computed whose boundary is given
\* from another vertex on than the first of the submesh's vertex list.
C20_Witness ==
  /\ result # <<>>
  /\ ~result.raised
  /\ args.submesh_boundary.inds[1] # args.submesh.inds[1]
  /\ uac_submesh_data[submesh_key].type = "UACSubmesh"

\* ---------------------------------------------------------------------------
\* The Store after construct_segmentation on the default workflow
\* ---------------------------------------------------------------------------

\* construct_segmentation has returned: every step of the workflow has been
\* executed and no exception was raised.
SegmentationReturned ==
  /\ status # "failed"
  /\ \/ todo = construct_uacs /\ stage = idle
     \/ Len(todo) < Len(construct_uacs)

\* A stage of construct_segmentation is about to process an entry that it
\* does not skip.
SegmentationEntryPending ==
  /\ EntryPending
  /\ stage.type \in {"feature_extraction", "shortest_path_construction",
                     "marker_extraction", "path_parameterization"}
  /\ stage.type = "feature_extraction"
       => path_configs(Head(queue)).class = "BoundaryPathConfig"
  /\ stage.type = "shortest_path_construction"
       => path_configs(Head(queue)).class = "ConnectionPathConfig"

\* C21: after construct_segmentation has run the default workflow without
\* failure every key of the raw-path, marker and parameterized-path sections
\* holds its artifact, and no entry of a step is processed for a key that an
\* earlier entry, of this step or of another, has written.
C21_SegmentationPopulatesOnce ==
  /\ SegmentationReturned =>
       /\ \A k \in DOMAIN raw_path_data : raw_path_data[k].type = "ndarray"
       /\ \A k \in DOMAIN marker_data : marker_data[k].type = "int"
       /\ \A k \in DOMAIN parameterized_path_data :
            parameterized_path_data[k].type = "ParameterizedPath"
  /\ SegmentationEntryPending => EntrySlot = None

\* construct_segmentation has just returned from the last step of the
\* workflow, and markers of different steps are in the Store.
C21_Witness ==
  /\ status = "running"
  /\ stage = idle
  /\ todo = construct_uacs
  /\ invocations = Len(workflow)
  /\ \E k, l \in DOMAIN marker_data :
       /\ marker_data[k].type = "int"
       /\ marker_data[l].type = "int"
       /\ marker_data[k].written_by # marker_data[l].written_by

\* ---------------------------------------------------------------------------
\* _reorder_path_by_markers on its own (construction_base.py:204-218)
\* ---------------------------------------------------------------------------

\* parameterize_path at its call of _reorder_path_by_markers
\* (construction_base.py:194-196): the returned pair is held by the caller.
ReorderPathByMarkers ==
  /\ Executing("path_parameterization")
  /\ args # <<>>
  /\ result = <<>>
  /\ \E r \in {reorder_path_by_markers(args.path, args.marker_inds, args.marker_values)} :
       result' = [raised |-> FALSE, ordered_path |-> r[1], relative_marker_inds |-> r[2]]
  /\ UNCHANGED <<Store, control, args>>

InitReorder == InitParameterization

NextReorder == ReorderPathByMarkers

SpecReorder == InitReorder /\ [][NextReorder]_vars

\* The closed path read from the given vertex on, in the stored direction and
\* against it.
Rotation(path, vertex) ==
  LET start == CHOOSE i \in DOMAIN path : path[i] = vertex
  IN [i \in DOMAIN path |-> path[((start + i - 2) % Len(path)) + 1]]

ReversedRotation(path, vertex) ==
  LET start == CHOOSE i \in DOMAIN path : path[i] = vertex
  IN [i \in DOMAIN path |-> path[((start - i) % Len(path)) + 1]]

\* The zero-based positions of the vertices on a sequence that holds each of
\* them once.
Positions(sequence, vertices) ==
  [m \in DOMAIN vertices |-> (CHOOSE i \in DOMAIN sequence : sequence[i] = vertices[m]) - 1]

StrictlyIncreasing(numbers) ==
  \A i, j \in DOMAIN numbers : i < j => numbers[i] < numbers[j]

\* C22: on a closed path with distinct markers, _reorder_path_by_markers
\* returns the path read from the first marker's vertex on, in the stored
\* direction or against it, with the markers' positions on it; and when the
\* markers lie at increasing positions in one of the two directions, it returns
\* such a direction (the only one, with three or more markers), so that the
\* returned positions are strictly increasing.
C22_RotatedToFirstMarker ==
  Returned =>
    LET forward == Rotation(args.path, args.marker_inds[1])
        backward == ReversedRotation(args.path, args.marker_inds[1])
    IN /\ result.ordered_path \in {forward, backward}
       /\ result.ordered_path[1] = args.marker_inds[1]
       /\ result.relative_marker_inds = Positions(result.ordered_path, args.marker_inds)
       /\ (\E oriented \in {forward, backward} :
              StrictlyIncreasing(Positions(oriented, args.marker_inds)))
            => StrictlyIncreasing(result.relative_marker_inds)

\* A path with three markers has been returned against its stored direction.
C22_Witness ==
  /\ Returned
  /\ Len(args.marker_inds) = 3
  /\ result.ordered_path = ReversedRotation(args.path, args.marker_inds[1])
  /\ result.ordered_path[1] # args.path[1]
  /\ StrictlyIncreasing(result.relative_marker_inds)

\* The markers lie at increasing positions neither in the stored direction of
\* the path nor against it.
NeitherDirectionAgrees ==
  /\ ~StrictlyIncreasing(Positions(Rotation(args.path, args.marker_inds[1]), args.marker_inds))
  /\ ~StrictlyIncreasing(Positions(ReversedRotation(args.path, args.marker_inds[1]),
                                   args.marker_inds))

\* C23: when the markers' order along the path agrees with the target values
\* in neither direction, parameterize_path raises, the stage fails, and no
\* parameterized path is written.
C23_InconsistentMarkersFail ==
  (result # <<>> /\ NeitherDirectionAgrees)
    => /\ result.raised
       /\ status = "failed"
       /\ \A key \in DOMAIN parameterized_path_data : parameterized_path_data[key] = None

\* The parameterization of a path with four markers in an order that no
\* direction agrees with has failed.
C23_Witness ==
  /\ result # <<>>
  /\ result.raised
  /\ Len(args.marker_inds) = 4
  /\ NeitherDirectionAgrees
  /\ status = "failed"

\* 1.0 is among the target values of the call.
OneAmongValues == \E m \in DOMAIN args.marker_values : args.marker_values[m] = <<1, 1>>

\* C24 (as stated): when 1.0 is not among the target values, the returned path
\* is the reordered path with its first vertex appended, one entry longer than
\* the input, with relative length 0 at the first entry and exactly 1.0 at
\* the last; when 1.0 is among them, nothing is appended.
C24_LoopClosure ==
  Returned =>
    LET reordered == reorder_path_by_markers(args.path, args.marker_inds, args.marker_values)[1]
        last == Len(result.inds)
    IN IF OneAmongValues
       THEN /\ result.inds = reordered
            /\ Len(result.relative_lengths) = Len(args.path)
       ELSE /\ result.inds = Append(reordered, reordered[1])
            /\ Len(result.relative_lengths) = Len(args.path) + 1
            /\ result.relative_lengths[1] = <<0, 1>>
            /\ result.relative_lengths[last] = <<1, 1>>

\* The markers of the returned path with the closing one, as zero-based
\* positions and target values.
ClosedMarkerPositions ==
  IF OneAmongValues THEN Positions(result.inds, args.marker_inds)
  ELSE Append(Positions(result.inds, args.marker_inds), Len(result.inds) - 1)

ClosedMarkerValues ==
  IF OneAmongValues THEN args.marker_values ELSE Append(args.marker_values, <<1, 1>>)

\* The arc length along the returned path between two of its zero-based
\* positions, an integer in the unit of the edge lengths.
RECURSIVE ArcLength(_, _)
ArcLength(from, to) ==
  IF to <= from THEN 0
  ELSE ArcLength(from, to - 1) + args.distance[{result.inds[to], result.inds[to + 1]}][1]

\* The fraction r is the exact value a + (b - a) * s / S up to four rounding
\* errors of 2^(-Precision) each.
LinearBetween(r, a, b, s, S) ==
  LET numerator == a[1] * b[2] * S + (b[1] * a[2] - a[1] * b[2]) * s
      denominator == a[2] * b[2] * S
  IN Abs(r[1] * denominator - numerator * r[2]) * 2^Precision <= 4 * numerator * r[2]

\* C25: between two consecutive markers with the target values a and b every
\* vertex has the relative length a + (b - a) * s / S, up to rounding, for the
\* arc length s from the first of the two markers to the vertex and the arc
\* length S between the markers; and a square with unit edges whose corners
\* are the markers with the targets 0, 1/4, 1/2, 3/4 gets exactly these values
\* and 1.0 at the closing vertex.
C25_PiecewiseLinear ==
  Returned =>
    /\ \A i \in 1..(Len(ClosedMarkerPositions) - 1) :
         \A j \in ClosedMarkerPositions[i]..ClosedMarkerPositions[i + 1] :
           LinearBetween(result.relative_lengths[j + 1],
                         ClosedMarkerValues[i], ClosedMarkerValues[i + 1],
                         ArcLength(ClosedMarkerPositions[i], j),
                         ArcLength(ClosedMarkerPositions[i], ClosedMarkerPositions[i + 1]))
    /\ (/\ Len(args.path) = 4
        /\ \A e \in DOMAIN args.distance : args.distance[e] = <<1, 1>>
        /\ args.marker_values = <<<<0, 1>>, <<1, 4>>, <<1, 2>>, <<3, 4>>>>)
         => result.relative_lengths = <<<<0, 1>>, <<1, 4>>, <<1, 2>>, <<3, 4>>, <<1, 1>>>>

\* A path has been returned on which a vertex lies strictly between two
\* markers, behind an edge longer than the one that follows.
C25_Witness ==
  /\ Returned
  /\ \E i \in 1..(Len(ClosedMarkerPositions) - 1) :
       /\ ClosedMarkerPositions[i] + 2 = ClosedMarkerPositions[i + 1]
       /\ ArcLength(ClosedMarkerPositions[i], ClosedMarkerPositions[i] + 1) = 5
       /\ ArcLength(ClosedMarkerPositions[i], ClosedMarkerPositions[i] + 2) = 6

\* ---------------------------------------------------------------------------
\* _concatenate_submesh_boundaries pass by pass (construction.py:425-458):
\* result holds the local variables of the call, unique for the three
\* accumulator arrays, boundary for the three lists, next_segment for the
\* segment popped last, as it was appended.
\* ---------------------------------------------------------------------------

\* Lists as in StitchArguments whose second section, in loop order, begins one
\* vertex early (a portion chosen too wide), so that it holds the last vertex
\* of the first section behind its own first vertex.
OverlapArguments(a) ==
  \E n \in 4..MaxLoop, k \in 2..MaxSegments :
    /\ k <= n
    /\ \E junctions \in {v \in [1..k -> 1..n] : \A i, j \in 1..k : i < j => v[i] < v[j]} :
         LET cut == sections(n, junctions, loop_alpha(n, junctions[2]))
             last == junctions[(2 % k) + 1]
             in_loop_order ==
               [m \in 1..k |->
                  IF m = 2 THEN section(n, junctions[2] - 1, last, loop_alpha(n, last))
                  ELSE cut[m]]
         IN \E order \in {p \in [1..k -> 1..k] : \A i, j \in 1..k : i # j => p[i] # p[j]} :
              \E flipped \in [1..k -> BOOLEAN] :
                a = [n |-> n, shape |-> "overlapping", segments |-> in_loop_order,
                     boundary |-> [i \in 1..k |->
                                     IF flipped[i] THEN reversed(in_loop_order[order[i]])
                                     ELSE in_loop_order[order[i]]]]

\* The three pop(0) of construction.py:431-433.
BeginConcatenation ==
  /\ Executing("submesh_boundary_extraction")
  /\ args # <<>>
  /\ result = <<>>
  /\ result' = [raised |-> FALSE, returned |-> FALSE, unique |-> args.boundary[1],
                boundary |-> pop(args.boundary, 0), next_segment |-> <<>>]
  /\ UNCHANGED <<Store, control, args>>

\* One pass of the while loop (construction.py:436-452); its ValueError
\* leaves the stitcher and the stage.
StitchPass ==
  /\ Executing("submesh_boundary_extraction")
  /\ result # <<>>
  /\ ~result.returned
  /\ result.boundary # <<>>
  /\ LET current_end_point == result.unique.inds[Len(result.unique.inds)]
         holding == {i \in DOMAIN result.boundary :
                       current_end_point \in Range(result.boundary[i].inds)}
     IN IF holding = {}
        THEN /\ result' = [result EXCEPT !.raised = TRUE]
             /\ status' = "failed"
             /\ error' = "algorithm"
             /\ UNCHANGED <<Store, todo, stage, queue, invocations, args>>
        ELSE \E i \in {Min(holding) - 1} :
               \E next_segment \in
                    {IF current_end_point
                          = result.boundary[i + 1].inds[Len(result.boundary[i + 1].inds)]
                     THEN reversed(result.boundary[i + 1]) ELSE result.boundary[i + 1]} :
                 /\ result' = [result EXCEPT !.unique = appended(result.unique, next_segment),
                                             !.boundary = pop(result.boundary, i),
                                             !.next_segment = next_segment]
                 /\ UNCHANGED <<Store, control, args>>

\* The end of the stitcher and the write of _extract_submesh_boundaries
\* (construction.py:454-458, 421-422).
ReturnConcatenation ==
  /\ Executing("submesh_boundary_extraction")
  /\ result # <<>>
  /\ ~result.returned
  /\ result.boundary = <<>>
  /\ \E closed \in {IF result.unique.inds[1] = result.unique.inds[Len(result.unique.inds)]
                    THEN without_last(result.unique) ELSE result.unique} :
       submesh_boundary_data' =
         set_dict_entry(Head(queue), submesh_boundary_data,
                        [type |-> "UACPath", written_by |-> invocations,
                         inds |-> closed.inds, alpha |-> closed.alpha, beta |-> closed.beta])
  /\ result' = [result EXCEPT !.returned = TRUE]
  /\ queue' = Tail(queue)
  /\ UNCHANGED <<marker_data, raw_path_data, parameterized_path_data, uac_path_data,
                 submesh_data, uac_submesh_data, todo, stage, status, error, invocations, args>>

InitStitchPasses ==
  /\ InitStore
  /\ todo = <<>>
  /\ stage = [id |-> "extract_submesh_boundaries", type |-> "submesh_boundary_extraction"]
  /\ queue = <<submesh_key>>
  /\ status = "running"
  /\ error = "none"
  /\ invocations = 1
  /\ StitchArguments(args) \/ OverlapArguments(args)
  /\ result = <<>>

NextStitchPasses == BeginConcatenation \/ StitchPass \/ ReturnConcatenation

SpecStitchPasses == InitStitchPasses /\ [][NextStitchPasses]_vars

\* A pass of the while loop has appended a segment: a segment has left the
\* list.
SegmentAppended ==
  /\ result # <<>>
  /\ result' # <<>>
  /\ Len(result'.boundary) < Len(result.boundary)

\* C26 (as stated): a pass appends a remaining segment only if the segment's
\* first or last vertex is the accumulator's last vertex, so that the
\* appended part, the segment as oriented by the pass without its first
\* entry, begins right behind the shared vertex.
C26_JoinsAtEndPoints ==
  [][SegmentAppended =>
       /\ result'.next_segment.inds[1] = result.unique.inds[Len(result.unique.inds)]
       /\ result'.unique.inds = result.unique.inds \o Tail(result'.next_segment.inds)]_vars

\* C29 (as stated): whenever the stitcher returns and its loop is written, the
\* accumulator's last vertex equalled its first after the last pass, so that
\* the segments of an open chain are never accepted as a submesh boundary.
C29_OnlyClosedLoops ==
  (result # <<>> /\ result.returned)
    => /\ result.unique.inds[1] = result.unique.inds[Len(result.unique.inds)]
       /\ args.shape # "open"

\* The zero-based position of the path at which the anchor is located: the
\* first one that holds the anchor's relative position.
AnchorIndex(a) ==
  Min({i \in DOMAIN args.path.relative_lengths :
         args.path.relative_lengths[i] = args.segment_points[a]}) - 1

\* The arrays of a returned UACPath have one length and hold the positions of
\* the path from the first anchor's to the last anchor's, each once and in
\* path order; the vertex at an anchor between the two occurs once at the
\* anchor's position.
EveryPositionOnce ==
  LET first == AnchorIndex(1)
      last == AnchorIndex(Len(args.segment_points))
  IN /\ Len(result.inds) = last - first + 1
     /\ Len(result.relative_lengths) = Len(result.inds)
     /\ Len(result.alpha) = Len(result.inds)
     /\ Len(result.beta) = Len(result.inds)
     /\ result.inds = SubSeq(args.path.inds, first + 1, last + 1)
     /\ result.relative_lengths = SubSeq(args.path.relative_lengths, first + 1, last + 1)
     /\ \A a \in 2..(Len(args.segment_points) - 1) :
          Cardinality({j \in DOMAIN result.inds :
                         result.relative_lengths[j] = args.segment_points[a]}) = 1

\* C27 (as stated): the arrays of a returned UACPath have one length and hold
\* every path position from the first anchor to the last once, and no vertex
\* index occurs twice in inds.
C27_NoDuplicateVertices ==
  Returned =>
    /\ EveryPositionOnce
    /\ \A i, j \in DOMAIN result.inds : i # j => result.inds[i] # result.inds[j]

\* C27 (amended): the arrays of a returned UACPath have one length and hold
\* every path position from the first anchor to the last once; a vertex index
\* occurs twice in inds only if the path holds it at two positions of this
\* range, as a closed path does with its first vertex.
C27_NoDuplicatePositions ==
  Returned =>
    /\ EveryPositionOnce
    /\ \A i, j \in DOMAIN result.inds :
         (i # j /\ result.inds[i] = result.inds[j])
           => args.path.inds[AnchorIndex(1) + i] = args.path.inds[AnchorIndex(1) + j]

\* A UACPath over three anchors has been returned for a closed path from its
\* first position to its last: the junction occurs once, the first vertex
\* twice.
C27_Witness ==
  /\ Returned
  /\ Len(args.segment_points) = 3
  /\ Len(result.inds) = Len(args.path.inds)
  /\ result.inds[1] = result.inds[Len(result.inds)]
  /\ uac_path_data[uac_key].inds = result.inds

\* The call resolved boundary vertices whose mesh-edge graph is one simple
\* path or cycle with at least one edge, and has ended.
SimpleBoundaryDone ==
  /\ result # <<>>
  /\ Cardinality(ResolvedBoundary) >= 2
  /\ SimplePathOrCycle(ResolvedBoundary, InducedEdges(args.faces, ResolvedBoundary))

\* C28 (as stated): when the mesh-edge graph on the resolved boundary vertices
\* is one simple cycle or one simple open path, get_feature_boundary returns a
\* sequence that holds every resolved boundary vertex exactly once and whose
\* consecutive vertices are joined by a mesh edge.
C28_SimpleBoundaryOrdered ==
  SimpleBoundaryDone =>
    /\ ~result.raised
    /\ Range(result.inds) = ResolvedBoundary
    /\ Len(result.inds) = Cardinality(ResolvedBoundary)
    /\ \A i \in 1..(Len(result.inds) - 1) :
         {result.inds[i], result.inds[i + 1]} \in InducedEdges(args.faces, ResolvedBoundary)

(***************************************************************************)
(* What a stage leaves alone                                               *)
(***************************************************************************)

\* The sections of the Store.
SectionNames ==
  {"marker", "raw_path", "parameterized_path", "uac_path", "submesh_boundary",
   "submesh", "uac_submesh"}

\* The key sequences the schema gives a section (construction.py:118-136).
SchemaKeys(name) ==
  CASE name = "marker" -> Range(marker_configs_keys)
    [] name = "raw_path" -> Range(path_configs_keys)
    [] name = "parameterized_path" -> Range(parameterization_configs_keys)
    [] name = "uac_path" -> Range(uac_configs_keys)
    [] name \in {"submesh_boundary", "submesh", "uac_submesh"} -> Range(submesh_configs_keys)

\* A step changes a Store slot only if a stage is processing the slot's key
\* and the slot is in the section the stage writes; the slots the stage reads
\* for the key are as before, and every section keeps the keys of its schema.
OnlyEntrySlotChanges ==
  /\ \A name \in SectionNames :
       /\ DOMAIN Section(name)' = SchemaKeys(name)
       /\ Section(name)' # Section(name)
            => /\ EntryPending
               /\ name = Writes(stage.type)
               /\ \A key \in SchemaKeys(name) \ {Head(queue)} :
                    Section(name)'[key] = Section(name)[key]
  /\ (Store' # Store /\ EntryPending) =>
       \A slot \in References(stage.type, Head(queue)) :
         slot[2] \in SchemaKeys(slot[1])
           => Section(slot[1])'[slot[2]] = Section(slot[1])[slot[2]]

====
